---- MODULE Spec2Model ----
(***************************************************************************)
(* State-machine model of lab_project_00 (src/src/main.rs): the window     *)
(* (main) thread running the winit event loop, the render thread running   *)
(* render_loop, the cross-thread EVENT_QUEUE and IS_RUNNING flag, the GPU  *)
(* work submitted by the render thread, the render-target resources        *)
(* (surface configuration, accum / reveal / depth-stencil textures and the *)
(* accum+reveal bind group), and the scene: the camera, the seven colored  *)
(* objects and their uniform buffers (src/src/camera.rs, objects.rs,       *)
(* interfaces.rs).                                                         *)
(***************************************************************************)
EXTENDS Integers, Sequences, FiniteSets, TLC

\* ------------------------------------------------------------------ bounds
\* Number of events the OS delivers to the event loop before LoopExiting.
MaxEvents == 2
\* Largest window width / height.
MaxDim == 2

\* Longest time between two timer ticks, in half seconds.
MaxDt == 2

Dims == 1..MaxDim

\* A window with no area (minimised): no width, no height, or neither.
ZeroSizes == {<<0, 0>>, <<0, 1>>, <<1, 0>>}

\* The sizes window.inner_size() and a Resized event can carry.
Sizes == (Dims \X Dims) \cup ZeroSizes

\* The window's inner size when the program starts.
InitialSize == <<1, 1>>

\* ------------------------------------------------------------------ events
\* winit events, by the arms the two match statements tell apart. seq is the
\* position of the event among the pushes, set when it is pushed (0 before).
\* "Other" is any event that the window thread forwards and whose arm in the
\* render thread is empty (a device event, a cursor move, a focus change).
PlainEventTypes == {"NewEvents", "AboutToWait", "CloseRequested", "Destroyed", "Other"}

NoEvent ==
    [seq |-> 0, type |-> "None", w |-> 0, h |-> 0, code |-> "None", pressed |-> FALSE]

PlainEvent(t) ==
    [seq |-> 0, type |-> t, w |-> 0, h |-> 0, code |-> "None", pressed |-> FALSE]

ResizedEvent(s) ==
    [seq |-> 0, type |-> "Resized", w |-> s[1], h |-> s[2], code |-> "None",
     pressed |-> FALSE]

\* The KeyboardInput events delivered, as (physical key, pressed): a press of
\* each arrow key the render thread's handler names, a release of one of them,
\* and a press of any other key.
KeyboardInputs ==
    {<<"ArrowLeft", TRUE>>, <<"ArrowRight", TRUE>>, <<"ArrowLeft", FALSE>>,
     <<"KeyOther", TRUE>>}

\* WindowEvent::KeyboardInput with its physical_key code and state.is_pressed().
KeyboardEvent(code, pressed) ==
    [seq |-> 0, type |-> "KeyboardInput", w |-> 0, h |-> 0, code |-> code,
     pressed |-> pressed]

VARIABLES
    winSize,        \* what window.inner_size() returns now
    nEvents,        \* events delivered by the OS so far
    IS_RUNNING,     \* static IS_RUNNING: AtomicBool
    EVENT_QUEUE,    \* static EVENT_QUEUE: SegQueue<Event<()>>
    nPushed,        \* history: number of EVENT_QUEUE.push calls so far
    nHandled,       \* history: number of events the render thread matched on
    lastHandled,    \* history: the event matched on last
    pc_w,           \* position of the window (main) thread
    curW,           \* the event the running callback was called with
    join,           \* Option<JoinHandle>: "unspawned", "some" or "none"
    exitReq,        \* elwt.exit() has been called
    pc_r,           \* position of the render thread
    event,          \* the event popped by the render thread
    rdW,            \* a width read from window.inner_size(), height pending
    config,         \* wgpu::SurfaceConfiguration width/height
    accum,          \* accum_texture_view
    reveal,         \* reveal_texture_view
    depth,          \* depth_stencil_view
    oit_bind_group, \* the texture generations oit_bind_group was built from
    rsLog,          \* history: GPU operations of the Resized arm being handled
    frameLog,       \* history: what this loop iteration has done since its drain
    camera,         \* PerspectiveCamera: world transform and aspect ratio
    cameraBuf,      \* contents last queued for the camera's uniform buffer
    objects,        \* the ColoredObjects of the scene, by name
    objectBuf,      \* contents last queued for each object's uniform buffer
    dt,             \* timer.elapsed_time_sec() of this iteration in half seconds,
                    \* 0 while the iteration has not read it
    lastKey,        \* history: the last arrow-key press handled
    repeated,       \* history: the event handled last is a Resized of positive
                    \* size, and so was the one before it, with the same size
    lateSubmits,    \* history: frames submitted since IS_RUNNING was stored false
    lastResize,     \* history: the size of the Resized of positive size handled
                    \* last, <<0, 0>> while there was none
    inflight,       \* command buffers submitted and not yet finished by the GPU
    entity,         \* EntitySpec: a builder or the WorldEntity built from it
    pixel           \* PixelSpec: one pixel of the render targets over the frames

vars == <<winSize, nEvents, IS_RUNNING, EVENT_QUEUE, nPushed, nHandled,
          lastHandled, pc_w, curW,
          join, exitReq, pc_r, event, rdW, config, accum, reveal, depth,
          oit_bind_group, rsLog, frameLog, camera, cameraBuf, objects, objectBuf,
          dt, lastKey, repeated, lateSubmits, lastResize, inflight, entity, pixel>>

windowVars == <<winSize, nEvents, IS_RUNNING, nPushed, pc_w, curW, join, exitReq>>

sceneVars == <<camera, cameraBuf, objects, objectBuf, dt, lastKey>>

renderVars == <<pc_r, event, rdW, config, accum, reveal, depth, oit_bind_group,
                rsLog, frameLog, nHandled, lastHandled, repeated, lateSubmits, lastResize, sceneVars>>

\* The variables of the program's own specification, and those of the
\* specifications of one entity and of one pixel, which it leaves alone.
programVars == <<windowVars, EVENT_QUEUE, inflight, renderVars>>

unitVars == <<entity, pixel>>

resources == <<config, accum, reveal, depth, oit_bind_group>>

NoTexture == [w |-> 0, h |-> 0, gen |-> 0]

\* device.create_texture(..).create_view(..) assigned over the view `old`.
CreateTexture(old, w, h) == [w |-> w, h |-> h, gen |-> old.gen + 1]

SizeOf(t) == <<t.w, t.h>>

\* The render thread's closure has returned or panicked (JoinHandle::is_finished).
RenderFinished == pc_r \in {"finished", "panicked"}

RenderRunning == pc_r \notin {"unspawned", "finished", "panicked"}

\* main has returned or panicked: the process is gone, and its threads with it.
ProcessExited == pc_w \in {"returned", "panicked"}

\* -------------------------------------------------------------------- scene
\* Vectors are triples of integers. Lengths are in half units, and a basis
\* column of a transform is given up to its (positive) length, which no
\* rotation changes.
Dot(u, v) == u[1] * v[1] + u[2] * v[2] + u[3] * v[3]

\* The count of frames submitted after the store of false is kept up to here.
MaxLate == 2

\* The elapsed times the frame timer can report, in half seconds.
ElapsedTimes == 1..MaxDt

\* cos and sin of k quarter turns.
Cos4(k) == CASE k % 4 = 0 -> 1 [] k % 4 = 1 -> 0 [] k % 4 = 2 -> -1 [] OTHER -> 0

\* Mutant of Sin4: sin taken as an even function, sin(-a) = sin(a).
Sin4_Even(k) ==
    CASE (IF k < 0 THEN -k ELSE k) % 4 = 1 -> 1
      [] (IF k < 0 THEN -k ELSE k) % 4 = 3 -> -1
      [] OTHER -> 0

Sin4(k) == CASE k % 4 = 1 -> 1 [] k % 4 = 3 -> -1 [] OTHER -> 0

\* Mat4::from_quat(Quat::from_rotation_y(k quarter turns)) applied to v:
\* the columns of the matrix are (cos, 0, -sin), (0, 1, 0), (sin, 0, cos).
RotY(k, v) ==
    <<Cos4(k) * v[1] + Sin4(k) * v[3], v[2], Cos4(k) * v[3] - Sin4(k) * v[1]>>

\* GameObject::rotate: *transform = mat.mul_mat4(transform), which multiplies
\* every column of the transform, the translation column w included.
Rotate(t, k) ==
    [x |-> RotY(k, t.x), y |-> RotY(k, t.y), z |-> RotY(k, t.z), w |-> RotY(k, t.w)]

\* GameCameraObject::get_camera_transform: the rows right, up, look and the
\* translation (-position.right, -position.up, -position.look).
GetCameraTransform(t) ==
    [right |-> t.x, up |-> t.y, look |-> t.z,
     translation |-> <<-Dot(t.w, t.x), -Dot(t.w, t.y), -Dot(t.w, t.z)>>]

\* get_projection_transform: Mat4::perspective_rh(fov_y, aspect_ratio, z_near,
\* z_far); of its parameters only the aspect ratio is not a literal. The ratio
\* is kept as the pair (width, height) it was divided from.
GetProjectionTransform(cam) == [aspect |-> cam.aspect]

NoUniform == [written |-> FALSE]

\* PerspectiveCamera::update_shader_resource: the CameraUniformLayout that
\* queue.write_buffer stages for the camera's buffer.
CameraUniform(cam) ==
    [written |-> TRUE,
     camera_matrix |-> GetCameraTransform(cam.transform),
     projection_matrix |-> GetProjectionTransform(cam)]

NoTransform == [x |-> <<0, 0, 0>>, y |-> <<0, 0, 0>>, z |-> <<0, 0, 0>>, w |-> <<0, 0, 0>>]

NoCamera == [transform |-> NoTransform, aspect |-> <<0, 0>>]

\* PerspectiveCameraBuilder::new(60 degrees, aspect, ..).set_translation((0, 3,
\* 15)).look_at_point((0, 0, 0)).build(..): look = position - point, right = up
\* x look, up = look x right, from the identity rotation.
BuildCamera(aspect) ==
    [transform |-> [x |-> <<1, 0, 0>>, y |-> <<0, 5, -1>>, z |-> <<0, 1, 5>>,
                    w |-> <<0, 6, 30>>],
     aspect |-> aspect]

\* The objects of the scene in the order they are built and pushed.
ObjectOrder ==
    <<"gray_plain", "wall_1", "red_glass", "wall_2", "green_glass", "blue_glass", "wall_3">>

ObjectNames == {ObjectOrder[i] : i \in DOMAIN ObjectOrder}

NoObject == [built |-> FALSE]

\* ColordObjectBuilder::new().set_color(..).set_scale(..).set_translation(..)
\* .build(..): colour in tenths, translation in half units, and the Vec the
\* object is pushed to.
BuildObject(o) ==
    CASE o = "gray_plain" ->
           [built |-> TRUE, vec |-> "opaque", color |-> <<5, 5, 5, 10>>,
            translation |-> <<0, 0, 0>>]
      [] o = "wall_1" ->
           [built |-> TRUE, vec |-> "opaque", color |-> <<7, 7, 7, 10>>,
            translation |-> <<6, 2, 0>>]
      [] o = "red_glass" ->
           [built |-> TRUE, vec |-> "transparent", color |-> <<10, 0, 0, 3>>,
            translation |-> <<0, 2, 0>>]
      [] o = "wall_2" ->
           [built |-> TRUE, vec |-> "opaque", color |-> <<7, 7, 7, 10>>,
            translation |-> <<-4, 2, 10>>]
      [] o = "green_glass" ->
           [built |-> TRUE, vec |-> "transparent", color |-> <<0, 10, 0, 3>>,
            translation |-> <<2, 2, 6>>]
      [] o = "blue_glass" ->
           [built |-> TRUE, vec |-> "transparent", color |-> <<0, 0, 10, 3>>,
            translation |-> <<-4, 2, -10>>]
      [] o = "wall_3" ->
           [built |-> TRUE, vec |-> "opaque", color |-> <<7, 7, 7, 10>>,
            translation |-> <<-1, 2, -5>>]

\* opaque_objects ("opaque") or transparent_objects ("transparent") as the
\* setup leaves it: the objects pushed to the Vec, in the order of the pushes.
SetupOrder(vec) == SelectSeq(ObjectOrder, LAMBDA o : BuildObject(o).vec = vec)

\* ColoredObject::update_shader_resource: world_matrix (by its translation
\* column) and color.
ObjectUniform(obj) ==
    [written |-> TRUE, world_matrix |-> obj.translation, color |-> obj.color]

NoKey == [code |-> "None", d |-> 0, before |-> NoTransform]

\* Mutant of KeyAngle: both arrow keys turn the same way.
KeyAngle_SameSign(code, d) == d

\* The angle of the key's rotation in quarter turns: -180 degrees * elapsed
\* seconds for ArrowLeft and +180 degrees * elapsed seconds for ArrowRight, the
\* elapsed time being d half seconds.
KeyAngle(code, d) == IF code = "ArrowLeft" THEN -d ELSE d

\* KeyCode::ArrowLeft == code && event.state.is_pressed(), or the same of
\* ArrowRight.
IsTurnKey(e) ==
    /\ e.type = "KeyboardInput"
    /\ e.code \in {"ArrowLeft", "ArrowRight"}
    /\ e.pressed

NoEntity == [phase |-> "none"]

NoPixel == [pass |-> "none"]

ProgramInit ==
    /\ winSize = InitialSize
    /\ nEvents = 0
    /\ IS_RUNNING = TRUE
    /\ EVENT_QUEUE = <<>>
    /\ nPushed = 0
    /\ nHandled = 0
    /\ lastHandled = NoEvent
    /\ pc_w = "setup"
    /\ curW = NoEvent
    /\ join = "unspawned"
    /\ exitReq = FALSE
    /\ pc_r = "unspawned"
    /\ event = NoEvent
    /\ rdW = 0
    /\ config = <<0, 0>>
    /\ accum = NoTexture
    /\ reveal = NoTexture
    /\ depth = NoTexture
    /\ oit_bind_group = [accum |-> 0, reveal |-> 0]
    /\ rsLog = <<>>
    /\ frameLog = <<>>
    /\ camera = NoCamera
    /\ cameraBuf = NoUniform
    /\ objects = [o \in ObjectNames |-> NoObject]
    /\ objectBuf = [o \in ObjectNames |-> NoUniform]
    /\ dt = 0
    /\ lastKey = NoKey
    /\ repeated = FALSE
    /\ lateSubmits = 0
    /\ lastResize = <<0, 0>>
    /\ inflight = 0

\* The program after construction; no entity and no pixel is followed.
Init ==
    /\ ProgramInit
    /\ entity = NoEntity
    /\ pixel = NoPixel


\* ------------------------------------------------------- window (main) thread
\* Where the thread is once the callback called with `e` has returned:
\* event_loop.run returns after the LoopExiting callback.
AfterCallback(e) == IF e.type = "LoopExiting" THEN "poll_all" ELSE "wait"

\* utils::setup_rendering_system: instance, surface, adapter, device, queue.
MainSetup ==
    /\ pc_w = "setup"
    /\ pc_w' = "spawn"
    /\ UNCHANGED <<winSize, nEvents, IS_RUNNING, EVENT_QUEUE, nPushed, curW, join,
                   exitReq, inflight>>
    /\ UNCHANGED renderVars
    /\ UNCHANGED unitVars

\* thread::spawn(move || render_loop(..)), then event_loop.run.
MainSpawn ==
    /\ pc_w = "spawn"
    /\ pc_w' = "wait"
    /\ join' = "some"
    /\ pc_r' = "i_camera_w"
    /\ UNCHANGED <<winSize, nEvents, IS_RUNNING, EVENT_QUEUE, nPushed, curW, exitReq,
                   inflight, event, rdW, config, accum, reveal, depth,
                   oit_bind_group, rsLog, frameLog, nHandled, lastHandled, repeated, lateSubmits, lastResize>>
    /\ UNCHANGED sceneVars
    /\ UNCHANGED unitVars

\* The OS resizes the window and the event loop calls the closure with Resized.
OsResized(s) ==
    /\ pc_w = "wait"
    /\ nEvents < MaxEvents
    /\ winSize' = s
    /\ nEvents' = nEvents + 1
    /\ curW' = ResizedEvent(s)
    /\ pc_w' = "callback"
    /\ UNCHANGED <<IS_RUNNING, EVENT_QUEUE, nPushed, join, exitReq, inflight>>
    /\ UNCHANGED renderVars
    /\ UNCHANGED unitVars

\* The event loop calls the closure with any other event.
OsEvent(t) ==
    /\ pc_w = "wait"
    /\ nEvents < MaxEvents
    /\ nEvents' = nEvents + 1
    /\ curW' = PlainEvent(t)
    /\ pc_w' = "callback"
    /\ UNCHANGED <<winSize, IS_RUNNING, EVENT_QUEUE, nPushed, join, exitReq, inflight>>
    /\ UNCHANGED renderVars
    /\ UNCHANGED unitVars

\* The event loop calls the closure with a KeyboardInput of the window.
OsKeyboard(code, pressed) ==
    /\ pc_w = "wait"
    /\ nEvents < MaxEvents
    /\ nEvents' = nEvents + 1
    /\ curW' = KeyboardEvent(code, pressed)
    /\ pc_w' = "callback"
    /\ UNCHANGED <<winSize, IS_RUNNING, EVENT_QUEUE, nPushed, join, exitReq, inflight>>
    /\ UNCHANGED renderVars
    /\ UNCHANGED unitVars

\* After elwt.exit() the event loop ends with one LoopExiting callback.
OsLoopExiting ==
    /\ pc_w = "wait"
    /\ exitReq
    /\ nEvents' = nEvents + 1
    /\ curW' = PlainEvent("LoopExiting")
    /\ pc_w' = "callback"
    /\ UNCHANGED <<winSize, IS_RUNNING, EVENT_QUEUE, nPushed, join, exitReq, inflight>>
    /\ UNCHANGED renderVars
    /\ UNCHANGED unitVars

\* Mutant of WCheckJoin: joins whenever a handle is held, finished or not.
WCheckJoin_NoFinishedCheck ==
    /\ pc_w = "callback"
    /\ pc_w' = IF join = "some" THEN "join" ELSE "match"
    /\ UNCHANGED <<winSize, nEvents, IS_RUNNING, EVENT_QUEUE, nPushed, curW, join,
                   exitReq, inflight>>
    /\ UNCHANGED renderVars
    /\ UNCHANGED unitVars

\* if join.as_ref().is_some_and(|join| join.is_finished())
WCheckJoin ==
    /\ pc_w = "callback"
    /\ pc_w' = IF join = "some" /\ RenderFinished THEN "join" ELSE "match"
    /\ UNCHANGED <<winSize, nEvents, IS_RUNNING, EVENT_QUEUE, nPushed, curW, join,
                   exitReq, inflight>>
    /\ UNCHANGED renderVars
    /\ UNCHANGED unitVars

\* join.take().unwrap().join().unwrap(); elwt.exit(); return;
\* JoinHandle::join waits for the thread to end; unwrap re-raises its panic.
WJoin ==
    /\ pc_w = "join"
    /\ RenderFinished
    /\ join' = "none"
    /\ IF pc_r = "panicked"
         THEN pc_w' = "panicked" /\ UNCHANGED exitReq
         ELSE pc_w' = AfterCallback(curW) /\ exitReq' = TRUE
    /\ curW' = NoEvent
    /\ UNCHANGED <<winSize, nEvents, IS_RUNNING, EVENT_QUEUE, nPushed, inflight>>
    /\ UNCHANGED renderVars
    /\ UNCHANGED unitVars

\* Mutant of WMatch: the close arm has no return and falls through to the push.
WMatch_CloseFallsThrough ==
    /\ pc_w = "match"
    /\ CASE curW.type \in {"NewEvents", "AboutToWait"} ->
              /\ pc_w' = AfterCallback(curW)
              /\ curW' = NoEvent
              /\ UNCHANGED <<IS_RUNNING, exitReq>>
         [] curW.type \in {"CloseRequested", "Destroyed"} ->
              /\ IS_RUNNING' = FALSE
              /\ exitReq' = TRUE
              /\ pc_w' = "push"
              /\ UNCHANGED curW
         [] OTHER ->
              /\ pc_w' = "push"
              /\ UNCHANGED <<IS_RUNNING, exitReq, curW>>
    /\ UNCHANGED <<winSize, nEvents, EVENT_QUEUE, nPushed, join, inflight>>
    /\ UNCHANGED renderVars
    /\ UNCHANGED unitVars

\* match event_cloned { .. }
WMatch ==
    /\ pc_w = "match"
    /\ CASE curW.type \in {"NewEvents", "AboutToWait"} ->
              /\ pc_w' = AfterCallback(curW)
              /\ curW' = NoEvent
              /\ UNCHANGED <<IS_RUNNING, exitReq>>
         [] curW.type \in {"CloseRequested", "Destroyed"} ->
              /\ IS_RUNNING' = FALSE
              /\ exitReq' = TRUE
              /\ pc_w' = AfterCallback(curW)
              /\ curW' = NoEvent
         [] OTHER ->
              /\ pc_w' = "push"
              /\ UNCHANGED <<IS_RUNNING, exitReq, curW>>
    /\ UNCHANGED <<winSize, nEvents, EVENT_QUEUE, nPushed, join, inflight>>
    /\ UNCHANGED renderVars
    /\ UNCHANGED unitVars

\* Mutant of WPush: a queue of capacity one, whose push waits for room.
WPush_Bounded ==
    /\ pc_w = "push"
    /\ EVENT_QUEUE = <<>>
    /\ EVENT_QUEUE' = Append(EVENT_QUEUE, [curW EXCEPT !.seq = nPushed + 1])
    /\ nPushed' = nPushed + 1
    /\ pc_w' = AfterCallback(curW)
    /\ curW' = NoEvent
    /\ UNCHANGED <<winSize, nEvents, IS_RUNNING, join, exitReq, inflight>>
    /\ UNCHANGED renderVars
    /\ UNCHANGED unitVars

\* EVENT_QUEUE.push(event)
WPush ==
    /\ pc_w = "push"
    /\ EVENT_QUEUE' = Append(EVENT_QUEUE, [curW EXCEPT !.seq = nPushed + 1])
    /\ nPushed' = nPushed + 1
    /\ pc_w' = AfterCallback(curW)
    /\ curW' = NoEvent
    /\ UNCHANGED <<winSize, nEvents, IS_RUNNING, join, exitReq, inflight>>
    /\ UNCHANGED renderVars
    /\ UNCHANGED unitVars

\* instance.poll_all(true) after event_loop.run has returned, then main returns.
MainPollAll ==
    /\ pc_w = "poll_all"
    /\ inflight = 0
    /\ pc_w' = "returned"
    /\ UNCHANGED <<winSize, nEvents, IS_RUNNING, EVENT_QUEUE, nPushed, curW, join,
                   exitReq, inflight>>
    /\ UNCHANGED renderVars
    /\ UNCHANGED unitVars

WindowStep ==
    \/ MainSetup
    \/ MainSpawn
    \/ WCheckJoin
    \/ WJoin
    \/ WMatch
    \/ WPush
    \/ MainPollAll

OsStep ==
    \/ \E s \in Sizes : OsResized(s)
    \/ \E t \in PlainEventTypes : OsEvent(t)
    \/ \E k \in KeyboardInputs : OsKeyboard(k[1], k[2])
    \/ OsLoopExiting

\* ------------------------------------------------------------ render thread
\* A panic of the render thread: the closure unwinds, nothing else changes.
RenderPanics ==
    /\ pc_r' = "panicked"
    /\ UNCHANGED <<event, rdW, config, accum, reveal, depth, oit_bind_group, rsLog,
                   nHandled, lastHandled, repeated, lateSubmits, lastResize>>

\* One `window.inner_size().width` read of a descriptor; its height is read next.
ReadWidth(from, to) ==
    /\ pc_r = from
    /\ ~ProcessExited
    /\ rdW' = winSize[1]
    /\ pc_r' = to
    /\ UNCHANGED <<event, config, accum, reveal, depth, oit_bind_group, rsLog,
                   nHandled, lastHandled, repeated, lateSubmits, lastResize>>
    /\ UNCHANGED <<windowVars, EVENT_QUEUE, inflight>>
    /\ UNCHANGED unitVars
    /\ UNCHANGED sceneVars
    /\ UNCHANGED frameLog

\* wgpu rejects a texture or a surface configuration with a zero extent; the
\* default uncaptured-error handler panics.
ValidExtent(w, h) == w > 0 /\ h > 0

\* PerspectiveCameraBuilder::new(.., window.inner_size().width as f32 /
\* window.inner_size().height as f32, ..) .. .build(..), then
\* camera.update_shader_resource(&queue). A zero height makes the ratio
\* infinite or NaN; nothing panics.
RInitCamera ==
    /\ pc_r = "i_camera_h"
    /\ ~ProcessExited
    /\ camera' = BuildCamera(<<rdW, winSize[2]>>)
    /\ cameraBuf' = CameraUniform(BuildCamera(<<rdW, winSize[2]>>))
    /\ rdW' = 0
    /\ pc_r' = "i_objects"
    /\ UNCHANGED <<event, config, accum, reveal, depth, oit_bind_group, rsLog,
                   nHandled, lastHandled, repeated, lateSubmits, lastResize>>
    /\ UNCHANGED <<windowVars, EVENT_QUEUE, inflight>>
    /\ UNCHANGED unitVars
    /\ UNCHANGED <<frameLog, objects, objectBuf, dt, lastKey>>

\* The seven objects: each is built, uploaded with update_shader_resource and
\* pushed to opaque_objects or transparent_objects.
RInitObjects ==
    /\ pc_r = "i_objects"
    /\ ~ProcessExited
    /\ objects' = [o \in ObjectNames |-> BuildObject(o)]
    /\ objectBuf' = [o \in ObjectNames |-> ObjectUniform(BuildObject(o))]
    /\ pc_r' = "i_accum_w"
    /\ UNCHANGED <<event, rdW, config, accum, reveal, depth, oit_bind_group, rsLog,
                   nHandled, lastHandled, repeated, lateSubmits, lastResize>>
    /\ UNCHANGED <<windowVars, EVENT_QUEUE, inflight>>
    /\ UNCHANGED unitVars
    /\ UNCHANGED <<frameLog, camera, cameraBuf, dt, lastKey>>

\* Accumulate texture: `height: window.inner_size().height`, create_texture.
RInitAccum ==
    /\ pc_r = "i_accum_h"
    /\ ~ProcessExited
    /\ IF ValidExtent(rdW, winSize[2])
         THEN /\ accum' = CreateTexture(accum, rdW, winSize[2])
              /\ pc_r' = "i_reveal_w"
              /\ rdW' = 0
              /\ UNCHANGED <<event, config, reveal, depth, oit_bind_group,
                             rsLog, nHandled, lastHandled, repeated, lateSubmits, lastResize>>
         ELSE RenderPanics
    /\ UNCHANGED <<windowVars, EVENT_QUEUE, inflight>>
    /\ UNCHANGED unitVars
    /\ UNCHANGED sceneVars
    /\ UNCHANGED frameLog

\* Revealage texture.
RInitReveal ==
    /\ pc_r = "i_reveal_h"
    /\ ~ProcessExited
    /\ IF ValidExtent(rdW, winSize[2])
         THEN /\ reveal' = CreateTexture(reveal, rdW, winSize[2])
              /\ pc_r' = "i_bind_group"
              /\ rdW' = 0
              /\ UNCHANGED <<event, config, accum, depth, oit_bind_group,
                             rsLog, nHandled, lastHandled, repeated, lateSubmits, lastResize>>
         ELSE RenderPanics
    /\ UNCHANGED <<windowVars, EVENT_QUEUE, inflight>>
    /\ UNCHANGED unitVars
    /\ UNCHANGED sceneVars
    /\ UNCHANGED frameLog

\* device.create_bind_group over &accum_texture_view and &reveal_texture_view.
CreateOitBindGroup == [accum |-> accum.gen, reveal |-> reveal.gen]

RInitBindGroup ==
    /\ pc_r = "i_bind_group"
    /\ ~ProcessExited
    /\ oit_bind_group' = CreateOitBindGroup
    /\ pc_r' = "i_config_w"
    /\ UNCHANGED <<event, rdW, config, accum, reveal, depth, rsLog, nHandled,
                   lastHandled, repeated, lateSubmits, lastResize>>
    /\ UNCHANGED <<windowVars, EVENT_QUEUE, inflight>>
    /\ UNCHANGED unitVars
    /\ UNCHANGED sceneVars
    /\ UNCHANGED frameLog

\* let mut config = SurfaceConfiguration { .. }; surface.configure(&device, &config)
RInitConfig ==
    /\ pc_r = "i_config_h"
    /\ ~ProcessExited
    /\ IF ValidExtent(rdW, winSize[2])
         THEN /\ config' = <<rdW, winSize[2]>>
              /\ pc_r' = "i_depth_w"
              /\ rdW' = 0
              /\ UNCHANGED <<event, accum, reveal, depth, oit_bind_group,
                             rsLog, nHandled, lastHandled, repeated, lateSubmits, lastResize>>
         ELSE RenderPanics
    /\ UNCHANGED <<windowVars, EVENT_QUEUE, inflight>>
    /\ UNCHANGED unitVars
    /\ UNCHANGED sceneVars
    /\ UNCHANGED frameLog

\* Depth-stencil texture; the frame loop follows.
RInitDepth ==
    /\ pc_r = "i_depth_h"
    /\ ~ProcessExited
    /\ IF ValidExtent(rdW, winSize[2])
         THEN /\ depth' = CreateTexture(depth, rdW, winSize[2])
              /\ pc_r' = "loop_check"
              /\ rdW' = 0
              /\ UNCHANGED <<event, config, accum, reveal, oit_bind_group,
                             rsLog, nHandled, lastHandled, repeated, lateSubmits, lastResize>>
         ELSE RenderPanics
    /\ UNCHANGED <<windowVars, EVENT_QUEUE, inflight>>
    /\ UNCHANGED unitVars
    /\ UNCHANGED sceneVars
    /\ UNCHANGED frameLog

RenderInit ==
    \/ ReadWidth("i_camera_w", "i_camera_h")
    \/ RInitCamera
    \/ RInitObjects
    \/ ReadWidth("i_accum_w", "i_accum_h")
    \/ RInitAccum
    \/ ReadWidth("i_reveal_w", "i_reveal_h")
    \/ RInitReveal
    \/ RInitBindGroup
    \/ ReadWidth("i_config_w", "i_config_h")
    \/ RInitConfig
    \/ ReadWidth("i_depth_w", "i_depth_h")
    \/ RInitDepth

\* Mutant of RLoopCheck: the loop goes on without loading IS_RUNNING.
RLoopCheck_NoLoad ==
    /\ pc_r = "loop_check"
    /\ ~ProcessExited
    /\ pc_r' = "pop"
    /\ frameLog' = <<>>
    /\ UNCHANGED <<event, rdW, config, accum, reveal, depth, oit_bind_group, rsLog,
                   nHandled, lastHandled, repeated, lateSubmits, lastResize>>
    /\ UNCHANGED <<windowVars, EVENT_QUEUE, inflight>>
    /\ UNCHANGED unitVars
    /\ UNCHANGED sceneVars

\* while IS_RUNNING.load(MemOrdering::Acquire), then timer.tick(). The tick
\* fixes the elapsed time of the iteration; its value is drawn where the
\* iteration first reads it (dt = 0: not read yet).
RLoopCheck ==
    /\ pc_r = "loop_check"
    /\ ~ProcessExited
    /\ pc_r' = IF IS_RUNNING THEN "pop" ELSE "finished"
    /\ frameLog' = <<>>
    /\ UNCHANGED <<event, rdW, config, accum, reveal, depth, oit_bind_group, rsLog,
                   nHandled, lastHandled, repeated, lateSubmits, lastResize>>
    /\ UNCHANGED <<windowVars, EVENT_QUEUE, inflight>>
    /\ UNCHANGED unitVars
    /\ UNCHANGED sceneVars

\* Mutant of RPop: pops the newest element instead of the oldest.
RPop_Lifo ==
    /\ pc_r = "pop"
    /\ ~ProcessExited
    /\ IF EVENT_QUEUE = <<>>
         THEN /\ pc_r' = "poll"
              /\ frameLog' = Append(frameLog, "empty_pop")
              /\ dt' = 0
              /\ UNCHANGED <<event, EVENT_QUEUE>>
         ELSE /\ event' = EVENT_QUEUE[Len(EVENT_QUEUE)]
              /\ EVENT_QUEUE' = SubSeq(EVENT_QUEUE, 1, Len(EVENT_QUEUE) - 1)
              /\ pc_r' = "dispatch"
              /\ UNCHANGED <<frameLog, dt>>
    /\ UNCHANGED <<rdW, config, accum, reveal, depth, oit_bind_group, rsLog,
                   nHandled, lastHandled, repeated, lateSubmits, lastResize>>
    /\ UNCHANGED <<windowVars, inflight>>
    /\ UNCHANGED unitVars
    /\ UNCHANGED <<camera, cameraBuf, objects, objectBuf, lastKey>>

\* while let Some(event) = EVENT_QUEUE.pop()
RPop ==
    /\ pc_r = "pop"
    /\ ~ProcessExited
    /\ IF EVENT_QUEUE = <<>>
         THEN /\ pc_r' = "poll"
              /\ frameLog' = Append(frameLog, "empty_pop")
              /\ dt' = 0
              /\ UNCHANGED <<event, EVENT_QUEUE>>
         ELSE /\ event' = Head(EVENT_QUEUE)
              /\ EVENT_QUEUE' = Tail(EVENT_QUEUE)
              /\ pc_r' = "dispatch"
              /\ UNCHANGED <<frameLog, dt>>
    /\ UNCHANGED <<rdW, config, accum, reveal, depth, oit_bind_group, rsLog,
                   nHandled, lastHandled, repeated, lateSubmits, lastResize>>
    /\ UNCHANGED <<windowVars, inflight>>
    /\ UNCHANGED unitVars
    /\ UNCHANGED <<camera, cameraBuf, objects, objectBuf, lastKey>>

\* Mutant of ResizeAccepted: `||` in place of `&&`.
ResizeAccepted_Or(e) == e.w > 0 \/ e.h > 0

\* if size.width > 0 && size.height > 0
ResizeAccepted(e) == e.w > 0 /\ e.h > 0

\* `e` is a Resized of positive size and so is `last`, with the same size.
RepeatsResize(last, e) ==
    /\ e.type = "Resized"
    /\ ResizeAccepted(e)
    /\ last.type = "Resized"
    /\ ResizeAccepted(last)
    /\ <<last.w, last.h>> = <<e.w, e.h>>

\* The size of the last Resized of positive size, once `e` is handled.
LastResize(last, e) ==
    IF e.type = "Resized" /\ ResizeAccepted(e) THEN <<e.w, e.h>> ELSE last

\* Mutant of KeyboardArm: the rotated camera is not uploaded.
KeyboardArm_NoUpload(e) ==
    IF IsTurnKey(e)
      THEN /\ dt' \in (IF dt = 0 THEN ElapsedTimes ELSE {dt})
           /\ camera' = [camera EXCEPT !.transform = Rotate(@, KeyAngle(e.code, dt'))]
           /\ lastKey' = [code |-> e.code, d |-> dt', before |-> camera.transform]
           /\ UNCHANGED cameraBuf
      ELSE UNCHANGED <<camera, cameraBuf, lastKey, dt>>

\* Mutant of KeyboardArm: event.state.is_pressed() is not asked for.
KeyboardArm_AnyState(e) ==
    IF e.type = "KeyboardInput" /\ e.code \in {"ArrowLeft", "ArrowRight"}
      THEN /\ dt' \in (IF dt = 0 THEN ElapsedTimes ELSE {dt})
           /\ camera' = [camera EXCEPT !.transform = Rotate(@, KeyAngle(e.code, dt'))]
           /\ cameraBuf' = CameraUniform(camera')
           /\ lastKey' = [code |-> e.code, d |-> dt', before |-> camera.transform]
      ELSE UNCHANGED <<camera, cameraBuf, lastKey, dt>>

\* The KeyboardInput arm: a pressed ArrowLeft or ArrowRight rotates the camera
\* by Quat::from_rotation_y(-+180 degrees * timer.elapsed_time_sec()) and
\* uploads it with camera.update_shader_resource(&queue); any other key, a
\* release, and every other event leave the camera alone. Every read of
\* elapsed_time_sec() in one iteration returns the same value.
KeyboardArm(e) ==
    IF IsTurnKey(e)
      THEN /\ dt' \in (IF dt = 0 THEN ElapsedTimes ELSE {dt})
           /\ camera' = [camera EXCEPT !.transform = Rotate(@, KeyAngle(e.code, dt'))]
           /\ cameraBuf' = CameraUniform(camera')
           /\ lastKey' = [code |-> e.code, d |-> dt', before |-> camera.transform]
      ELSE UNCHANGED <<camera, cameraBuf, lastKey, dt>>

\* Mutant of RDispatch: `if let` in place of `while let`, so the frame follows
\* the first event handled without a further pop.
RDispatch_Once ==
    /\ pc_r = "dispatch"
    /\ ~ProcessExited
    /\ nHandled' = nHandled + 1
    /\ lastHandled' = event
    /\ repeated' = RepeatsResize(lastHandled, event)
    /\ lastResize' = LastResize(lastResize, event)
    /\ UNCHANGED lateSubmits
    /\ rsLog' = <<>>
    /\ IF event.type = "Resized" /\ ResizeAccepted(event)
         THEN pc_r' = "rs_poll_all" /\ UNCHANGED event
         ELSE pc_r' = "poll" /\ event' = NoEvent
    /\ KeyboardArm(event)
    /\ UNCHANGED <<rdW, config, accum, reveal, depth, oit_bind_group>>
    /\ UNCHANGED <<windowVars, EVENT_QUEUE, inflight>>
    /\ UNCHANGED unitVars
    /\ UNCHANGED <<frameLog, objects, objectBuf>>

\* match event { .. }: a Resized of positive size starts the resize arm, a
\* KeyboardInput runs the keyboard arm, and every other event falls through to
\* the next pop.
RDispatch ==
    /\ pc_r = "dispatch"
    /\ ~ProcessExited
    /\ nHandled' = nHandled + 1
    /\ lastHandled' = event
    /\ repeated' = RepeatsResize(lastHandled, event)
    /\ lastResize' = LastResize(lastResize, event)
    /\ UNCHANGED lateSubmits
    /\ rsLog' = <<>>
    /\ IF event.type = "Resized" /\ ResizeAccepted(event)
         THEN pc_r' = "rs_poll_all" /\ UNCHANGED event
         ELSE pc_r' = "pop" /\ event' = NoEvent
    /\ KeyboardArm(event)
    /\ UNCHANGED <<rdW, config, accum, reveal, depth, oit_bind_group>>
    /\ UNCHANGED <<windowVars, EVENT_QUEUE, inflight>>
    /\ UNCHANGED unitVars
    /\ UNCHANGED <<frameLog, objects, objectBuf>>

\* Mutant of RsPollAll: instance.poll_all(false), which does not wait.
RsPollAll_NoWait ==
    /\ pc_r = "rs_poll_all"
    /\ ~ProcessExited
    /\ rsLog' = Append(rsLog, "poll_all")
    /\ pc_r' = "rs_configure"
    /\ UNCHANGED <<event, rdW, config, accum, reveal, depth, oit_bind_group,
                   nHandled, lastHandled, repeated, lateSubmits, lastResize>>
    /\ UNCHANGED <<windowVars, EVENT_QUEUE, inflight>>
    /\ UNCHANGED unitVars
    /\ UNCHANGED sceneVars
    /\ UNCHANGED frameLog

\* instance.poll_all(true): returns when all submitted work has finished.
RsPollAll ==
    /\ pc_r = "rs_poll_all"
    /\ ~ProcessExited
    /\ inflight = 0
    /\ rsLog' = Append(rsLog, "poll_all")
    /\ pc_r' = "rs_configure"
    /\ UNCHANGED <<event, rdW, config, accum, reveal, depth, oit_bind_group,
                   nHandled, lastHandled, repeated, lateSubmits, lastResize>>
    /\ UNCHANGED <<windowVars, EVENT_QUEUE, inflight>>
    /\ UNCHANGED unitVars
    /\ UNCHANGED sceneVars
    /\ UNCHANGED frameLog

\* Mutant of RsAccum: the texture's width and height are swapped.
RsAccum_SwapExtent ==
    /\ pc_r = "rs_accum"
    /\ ~ProcessExited
    /\ accum' = CreateTexture(accum, event.h, event.w)
    /\ rsLog' = Append(rsLog, "accum")
    /\ pc_r' = "rs_reveal"
    /\ UNCHANGED <<event, rdW, config, reveal, depth, oit_bind_group, nHandled,
                   lastHandled, repeated, lateSubmits, lastResize>>
    /\ UNCHANGED <<windowVars, EVENT_QUEUE, inflight>>
    /\ UNCHANGED unitVars
    /\ UNCHANGED sceneVars
    /\ UNCHANGED frameLog

\* Mutant of RsConfigure: the bind group is rebuilt before the textures it reads.
RsConfigure_BindGroupFirst ==
    /\ pc_r = "rs_configure"
    /\ ~ProcessExited
    /\ config' = <<event.w, event.h>>
    /\ rsLog' = Append(rsLog, "configure")
    /\ pc_r' = "rs_bind_group"
    /\ UNCHANGED <<event, rdW, accum, reveal, depth, oit_bind_group, nHandled,
                   lastHandled, repeated, lateSubmits, lastResize>>
    /\ UNCHANGED <<windowVars, EVENT_QUEUE, inflight>>
    /\ UNCHANGED unitVars
    /\ UNCHANGED sceneVars
    /\ UNCHANGED frameLog

\* config.width = size.width; config.height = size.height; surface.configure
RsConfigure ==
    /\ pc_r = "rs_configure"
    /\ ~ProcessExited
    /\ config' = <<event.w, event.h>>
    /\ rsLog' = Append(rsLog, "configure")
    /\ pc_r' = "rs_accum"
    /\ UNCHANGED <<event, rdW, accum, reveal, depth, oit_bind_group, nHandled,
                   lastHandled, repeated, lateSubmits, lastResize>>
    /\ UNCHANGED <<windowVars, EVENT_QUEUE, inflight>>
    /\ UNCHANGED unitVars
    /\ UNCHANGED sceneVars
    /\ UNCHANGED frameLog

RsAccum ==
    /\ pc_r = "rs_accum"
    /\ ~ProcessExited
    /\ accum' = CreateTexture(accum, event.w, event.h)
    /\ rsLog' = Append(rsLog, "accum")
    /\ pc_r' = "rs_reveal"
    /\ UNCHANGED <<event, rdW, config, reveal, depth, oit_bind_group, nHandled,
                   lastHandled, repeated, lateSubmits, lastResize>>
    /\ UNCHANGED <<windowVars, EVENT_QUEUE, inflight>>
    /\ UNCHANGED unitVars
    /\ UNCHANGED sceneVars
    /\ UNCHANGED frameLog

RsReveal ==
    /\ pc_r = "rs_reveal"
    /\ ~ProcessExited
    /\ reveal' = CreateTexture(reveal, event.w, event.h)
    /\ rsLog' = Append(rsLog, "reveal")
    /\ pc_r' = "rs_bind_group"
    /\ UNCHANGED <<event, rdW, config, accum, depth, oit_bind_group, nHandled,
                   lastHandled, repeated, lateSubmits, lastResize>>
    /\ UNCHANGED <<windowVars, EVENT_QUEUE, inflight>>
    /\ UNCHANGED unitVars
    /\ UNCHANGED sceneVars
    /\ UNCHANGED frameLog

\* Mutant of RsBindGroup: the bind group is not rebuilt on resize.
RsBindGroup_Stale ==
    /\ pc_r = "rs_bind_group"
    /\ ~ProcessExited
    /\ rsLog' = Append(rsLog, "bind_group")
    /\ pc_r' = "rs_depth"
    /\ UNCHANGED <<event, rdW, config, accum, reveal, depth, oit_bind_group,
                   nHandled, lastHandled, repeated, lateSubmits, lastResize>>
    /\ UNCHANGED <<windowVars, EVENT_QUEUE, inflight>>
    /\ UNCHANGED unitVars
    /\ UNCHANGED sceneVars
    /\ UNCHANGED frameLog

\* oit_bind_group = device.create_bind_group(..) over the new views.
RsBindGroup ==
    /\ pc_r = "rs_bind_group"
    /\ ~ProcessExited
    /\ oit_bind_group' = CreateOitBindGroup
    /\ rsLog' = Append(rsLog, "bind_group")
    /\ pc_r' = "rs_depth"
    /\ UNCHANGED <<event, rdW, config, accum, reveal, depth, nHandled, lastHandled, repeated, lateSubmits, lastResize>>
    /\ UNCHANGED <<windowVars, EVENT_QUEUE, inflight>>
    /\ UNCHANGED unitVars
    /\ UNCHANGED sceneVars
    /\ UNCHANGED frameLog

RsDepth ==
    /\ pc_r = "rs_depth"
    /\ ~ProcessExited
    /\ depth' = CreateTexture(depth, event.w, event.h)
    /\ rsLog' = Append(rsLog, "depth")
    /\ pc_r' = "pop"
    /\ event' = NoEvent
    /\ UNCHANGED <<rdW, config, accum, reveal, oit_bind_group, nHandled, lastHandled, repeated, lateSubmits, lastResize>>
    /\ UNCHANGED <<windowVars, EVENT_QUEUE, inflight>>
    /\ UNCHANGED unitVars
    /\ UNCHANGED sceneVars
    /\ UNCHANGED frameLog

RenderResize ==
    \/ RsPollAll
    \/ RsConfigure
    \/ RsAccum
    \/ RsReveal
    \/ RsBindGroup
    \/ RsDepth

\* Mutant of RPoll: device.poll(wgpu::Maintain::Poll), which does not wait.
RPoll_NoWait ==
    /\ pc_r = "poll"
    /\ ~ProcessExited
    /\ pc_r' = "acquire"
    /\ UNCHANGED <<event, rdW, config, accum, reveal, depth, oit_bind_group, rsLog,
                   nHandled, lastHandled, repeated, lateSubmits, lastResize>>
    /\ UNCHANGED <<windowVars, EVENT_QUEUE, inflight>>
    /\ UNCHANGED unitVars
    /\ UNCHANGED sceneVars
    /\ UNCHANGED frameLog

\* device.poll(wgpu::Maintain::Wait): returns when the submitted work has finished.
RPoll ==
    /\ pc_r = "poll"
    /\ ~ProcessExited
    /\ inflight = 0
    /\ pc_r' = "acquire"
    /\ UNCHANGED <<event, rdW, config, accum, reveal, depth, oit_bind_group, rsLog,
                   nHandled, lastHandled, repeated, lateSubmits, lastResize>>
    /\ UNCHANGED <<windowVars, EVENT_QUEUE, inflight>>
    /\ UNCHANGED unitVars
    /\ UNCHANGED sceneVars
    /\ UNCHANGED frameLog

\* Mutant of RAcquire: a failed acquire skips the frame and is tried again.
RAcquire_Retry ==
    /\ pc_r = "acquire"
    /\ ~ProcessExited
    /\ \E ok \in BOOLEAN :
         IF ok
           THEN pc_r' = "record" /\ frameLog' = Append(frameLog, "acquire")
           ELSE pc_r' = "acquire" /\ frameLog' = Append(frameLog, "acquire_err")
    /\ UNCHANGED <<event, rdW, config, accum, reveal, depth, oit_bind_group, rsLog,
                   nHandled, lastHandled, repeated, lateSubmits, lastResize>>
    /\ UNCHANGED <<windowVars, EVENT_QUEUE, inflight>>
    /\ UNCHANGED unitVars
    /\ UNCHANGED sceneVars

\* surface.get_current_texture().unwrap(): Ok(frame), or Err (timeout, outdated,
\* lost, out of memory) and the unwrap panics.
RAcquire ==
    /\ pc_r = "acquire"
    /\ ~ProcessExited
    /\ \E ok \in BOOLEAN :
         IF ok
           THEN pc_r' = "record" /\ frameLog' = Append(frameLog, "acquire")
           ELSE pc_r' = "panicked" /\ frameLog' = Append(frameLog, "acquire_err")
    /\ UNCHANGED <<event, rdW, config, accum, reveal, depth, oit_bind_group, rsLog,
                   nHandled, lastHandled, repeated, lateSubmits, lastResize>>
    /\ UNCHANGED <<windowVars, EVENT_QUEUE, inflight>>
    /\ UNCHANGED unitVars
    /\ UNCHANGED sceneVars

\* The attachments of one render pass must have one extent: the frame's view
\* (of the configured size) with depth_stencil_view in passes 1 and 3, and
\* accum_texture_view, reveal_texture_view and depth_stencil_view in pass 2.
AttachmentsMatch ==
    /\ SizeOf(depth) = config
    /\ SizeOf(accum) = SizeOf(depth)
    /\ SizeOf(reveal) = SizeOf(depth)

\* Passes 1 and 3 attach the frame's view and depth_stencil_view.
SurfacePassValid == SizeOf(depth) = config

\* Pass 2 attaches accum_texture_view, reveal_texture_view and depth_stencil_view.
TransparentPassValid ==
    /\ SizeOf(accum) = SizeOf(depth)
    /\ SizeOf(reveal) = SizeOf(depth)

\* opaque_objects ("opaque") or transparent_objects ("transparent"): the
\* objects pushed to the Vec, in the order of the pushes.
InVec(o, vec) == objects[o].built /\ objects[o].vec = vec

ObjectsOf(vec) == SelectSeq(ObjectOrder, LAMBDA o : InVec(o, vec))

\* Mutant of DrawCommands: every object of the scene is drawn in the pass.
DrawCommands_AllObjects(vec) == <<"camera">> \o ObjectOrder

\* The draws of pass 1 or 2: rpass.set_bind_group(0, camera.ref_bind_group(),
\* &[]) ("camera"), then for each object of the Vec, in order,
\* rpass.set_bind_group(1, object.ref_bind_group(), &[]) and rpass.draw(0..4,
\* 0..1), logged under the object's name.
DrawCommands(vec) == <<"camera">> \o ObjectsOf(vec)

\* One step of the recording from `from`: it appends `ops` to the iteration's
\* log and goes on to `to`, or, when the pass is invalid (attachments that
\* differ in extent are a validation error), panics.
RecordOps(from, ops, valid, to) ==
    /\ pc_r = from
    /\ ~ProcessExited
    /\ IF valid
         THEN pc_r' = to /\ frameLog' = frameLog \o ops
         ELSE pc_r' = "panicked" /\ UNCHANGED frameLog
    /\ UNCHANGED <<event, rdW, config, accum, reveal, depth, oit_bind_group, rsLog,
                   nHandled, lastHandled, repeated, lateSubmits, lastResize>>
    /\ UNCHANGED <<windowVars, EVENT_QUEUE, inflight>>
    /\ UNCHANGED unitVars
    /\ UNCHANGED sceneVars

RecordStep(from, op, valid, to) == RecordOps(from, <<op>>, valid, to)

\* Mutant of REncoder: the transparent pass is recorded first, the opaque never.
REncoder_TransparentFirst == RecordStep("record", "encoder", TRUE, "transparent")

\* let mut encoder = device.create_command_encoder(..)
REncoder == RecordStep("record", "encoder", TRUE, "opaque")

\* Pass 1, RenderPass(Opaque), with the draws of opaque_objects.
ROpaquePass ==
    RecordOps("opaque", <<"opaque">> \o DrawCommands("opaque"), SurfacePassValid,
              "transparent")

\* Pass 2, RenderPass(Transparent), with the draws of transparent_objects.
RTransparentPass ==
    RecordOps("transparent", <<"transparent">> \o DrawCommands("transparent"),
              TransparentPassValid, "composite")

\* Pass 3, RenderPass(Composite).
RCompositePass == RecordStep("composite", "composite", SurfacePassValid, "submit")

\* create_command_encoder and the three render passes; a pass whose attachments
\* differ in extent is a validation error, which panics.
RRecord ==
    \/ REncoder
    \/ ROpaquePass
    \/ RTransparentPass
    \/ RCompositePass

\* The count of frames submitted with IS_RUNNING false, after one more.
LateSubmits(n) == IF IS_RUNNING THEN n ELSE IF n < MaxLate THEN n + 1 ELSE n

\* queue.submit(Some(encoder.finish()))
RSubmit ==
    /\ pc_r = "submit"
    /\ ~ProcessExited
    /\ inflight' = inflight + 1
    /\ frameLog' = Append(frameLog, "submit")
    /\ lateSubmits' = LateSubmits(lateSubmits)
    /\ pc_r' = "present"
    /\ UNCHANGED <<event, rdW, config, accum, reveal, depth, oit_bind_group, rsLog,
                   nHandled, lastHandled, repeated, lastResize>>
    /\ UNCHANGED <<windowVars, EVENT_QUEUE>>
    /\ UNCHANGED unitVars
    /\ UNCHANGED sceneVars

\* frame.present()
RPresent ==
    /\ pc_r = "present"
    /\ ~ProcessExited
    /\ frameLog' = Append(frameLog, "present")
    /\ pc_r' = "loop_check"
    /\ UNCHANGED <<event, rdW, config, accum, reveal, depth, oit_bind_group, rsLog,
                   nHandled, lastHandled, repeated, lateSubmits, lastResize>>
    /\ UNCHANGED <<windowVars, EVENT_QUEUE, inflight>>
    /\ UNCHANGED unitVars
    /\ UNCHANGED sceneVars

RenderFrame ==
    \/ RLoopCheck
    \/ RPop
    \/ RDispatch
    \/ RPoll
    \/ RAcquire
    \/ RRecord
    \/ RSubmit
    \/ RPresent

RenderStep ==
    \/ RenderInit
    \/ RenderFrame
    \/ RenderResize

\* ---------------------------------------------------------------------- GPU
\* The GPU finishes a submitted command buffer.
GpuComplete ==
    /\ inflight > 0
    /\ ~ProcessExited
    /\ inflight' = inflight - 1
    /\ UNCHANGED <<windowVars, EVENT_QUEUE>>
    /\ UNCHANGED renderVars
    /\ UNCHANGED unitVars

Next ==
    \/ OsStep
    \/ WindowStep
    \/ RenderStep
    \/ GpuComplete

Spec == Init /\ [][Next]_vars

\* The threads and the GPU keep running while they can; the OS owes no event.
FairSpec ==
    /\ Spec
    /\ WF_vars(WindowStep)
    /\ WF_vars(OsLoopExiting)
    /\ WF_vars(RenderStep)
    /\ WF_vars(GpuComplete)

\* ==================================================================== pixel
\* One pixel of the render targets over the frames of render_loop: what the
\* three passes of a frame read and write there. The fragments that the
\* objects' draws produce at the pixel (none, or one with a depth and the
\* fragment stage's outputs) are inputs, drawn where the draw is recorded.

\* Bounds: the depth of the far plane in depth steps (the depth value 1.0), and
\* the largest value a transparent fragment adds to a channel of accum.
DepthFar == 2

MaxSrc == 2

\* The reveal value 1.0, in eighths: three halvings of it are whole.
RevealOne == 8

Depths == 0..DepthFar

NoFragment == [covers |-> FALSE, depth |-> 0, a |-> 0, r |-> 0]

\* fs_opaque_main's fragment: the object's colour at some depth.
OpaqueFragments ==
    {NoFragment} \cup {[covers |-> TRUE, depth |-> d, a |-> 0, r |-> 0] : d \in Depths}

\* fs_transparent_pass's fragment: output 0 (a, one channel of it) goes to
\* accum and output 1 (r, in eighths) to reveal.
TransparentFragments ==
    {NoFragment} \cup
    {[covers |-> TRUE, depth |-> d, a |-> a, r |-> r] :
        d \in Depths, a \in 1..MaxSrc, r \in {RevealOne \div 2, RevealOne}}

\* Mutant of DepthTest: CompareFunction::LessEqual.
DepthTest_LessEqual(f, d) == f.covers /\ f.depth <= d

\* depth_compare: wgpu::CompareFunction::Less, in all three pipelines.
DepthTest(f, d) == f.covers /\ f.depth < d

\* A draw of the opaque pipeline at the pixel: blend None, write mask ALL,
\* depth_write_enabled true. The colour is named by the object that wrote it.
OpaqueDraw(t, o, f) ==
    IF DepthTest(f, t.depth) THEN [t EXCEPT !.color = o, !.depth = f.depth] ELSE t

\* Mutant of TransparentDraw: accum blended "over", dst factor OneMinusSrc.
TransparentDraw_Over(t, f) ==
    IF DepthTest(f, t.depth)
      THEN [t EXCEPT !.accum = f.a + (@ * (RevealOne - f.r)) \div RevealOne,
                     !.reveal = (@ * (RevealOne - f.r)) \div RevealOne]
      ELSE t

\* Mutant of TransparentDraw: depth_write_enabled true.
TransparentDraw_DepthWrite(t, f) ==
    IF DepthTest(f, t.depth)
      THEN [t EXCEPT !.accum = @ + f.a,
                     !.reveal = (@ * (RevealOne - f.r)) \div RevealOne,
                     !.depth = f.depth]
      ELSE t

\* A draw of the transparent pipeline at the pixel: target 0 blends (One, One,
\* Add), target 1 blends (Zero, OneMinusSrc, Add), depth_write_enabled false.
TransparentDraw(t, f) ==
    IF DepthTest(f, t.depth)
      THEN [t EXCEPT !.accum = 1 * f.a + 1 * @,
                     !.reveal = 0 * f.r + (@ * (RevealOne - f.r)) \div RevealOne]
      ELSE t

\* device.create_texture: wgpu hands out textures whose contents are zero.
NewTextures(t) == [t EXCEPT !.depth = 0, !.accum = 0, !.reveal = 0]

NoConsumed == [color |-> "none", depth |-> 0, accum |-> 0, reveal |-> 0]

\* The pixel when the frame loop starts: new textures, a surface never drawn.
\* `after` tells what came before the frame at hand: the start of the loop, a
\* presented frame, or a resize handled since.
FirstPixel ==
    [pass |-> "idle", k |-> 0,
     tex |-> [color |-> "none", depth |-> 0, accum |-> 0, reveal |-> 0],
     opaque1 |-> [color |-> "none", depth |-> 0],
     drawn |-> <<>>, consumed |-> NoConsumed, after |-> "start"]

PixelInit ==
    /\ ProgramInit
    /\ entity = NoEntity
    /\ pixel = FirstPixel

\* The drain handles a Resized of positive size: accum, reveal and depth are
\* replaced by new textures.
PxResize ==
    /\ pixel.pass = "idle"
    /\ pixel.after # "resize"
    /\ pixel' = [pixel EXCEPT !.tex = NewTextures(@), !.after = "resize"]
    /\ UNCHANGED <<programVars, entity>>

\* begin_render_pass(RenderPass(Opaque)): LoadOp::Clear(Color::BLACK) on the
\* frame's view and LoadOp::Clear(1.0) on depth_stencil_view.
PxBeginOpaque ==
    /\ pixel.pass = "idle"
    /\ pixel' = [pixel EXCEPT !.pass = "opaque", !.k = 1,
                              !.tex.color = "black", !.tex.depth = DepthFar,
                              !.opaque1 = [color |-> "none", depth |-> 0],
                              !.drawn = <<>>, !.consumed = NoConsumed]
    /\ UNCHANGED <<programVars, entity>>

\* for object in opaque_objects.iter() { .. rpass.draw(0..4, 0..1) }: one draw.
PxOpaqueDraw ==
    /\ pixel.pass = "opaque"
    /\ pixel.k <= Len(SetupOrder("opaque"))
    /\ \E f \in OpaqueFragments :
         pixel' = [pixel EXCEPT !.tex = OpaqueDraw(@, SetupOrder("opaque")[pixel.k], f),
                                !.drawn = Append(@, f),
                                !.k = @ + 1]
    /\ UNCHANGED <<programVars, entity>>

\* Mutant of PxBeginTransparent: LoadOp::Load on accum and reveal.
PxBeginTransparent_Load ==
    /\ pixel.pass = "opaque"
    /\ pixel.k > Len(SetupOrder("opaque"))
    /\ pixel' = [pixel EXCEPT !.pass = "transparent", !.k = 1,
                              !.opaque1 = [color |-> pixel.tex.color,
                                           depth |-> pixel.tex.depth],
                              !.drawn = <<>>]
    /\ UNCHANGED <<programVars, entity>>

\* begin_render_pass(RenderPass(Transparent)): LoadOp::Clear of accum to 0 and
\* of reveal to 1, LoadOp::Load on depth_stencil_view. What pass 1 left at the
\* pixel is remembered in opaque1.
PxBeginTransparent ==
    /\ pixel.pass = "opaque"
    /\ pixel.k > Len(SetupOrder("opaque"))
    /\ pixel' = [pixel EXCEPT !.pass = "transparent", !.k = 1,
                              !.tex.accum = 0, !.tex.reveal = RevealOne,
                              !.opaque1 = [color |-> pixel.tex.color,
                                           depth |-> pixel.tex.depth],
                              !.drawn = <<>>]
    /\ UNCHANGED <<programVars, entity>>

\* for object in transparent_objects.iter() { .. rpass.draw(0..4, 0..1) }: one draw.
PxTransparentDraw ==
    /\ pixel.pass = "transparent"
    /\ pixel.k <= Len(SetupOrder("transparent"))
    /\ \E f \in TransparentFragments :
         pixel' = [pixel EXCEPT !.tex = TransparentDraw(@, f),
                                !.drawn = Append(@, f),
                                !.k = @ + 1]
    /\ UNCHANGED <<programVars, entity>>

\* begin_render_pass(RenderPass(Composite)) with LoadOp::Load on the frame's
\* view and on depth_stencil_view, and the one draw of the composite pipeline,
\* which reads accum and reveal through oit_bind_group: its fragment, at a
\* depth cz the vertex stage decides, passes the depth test or not, and where
\* it passes the pipeline writes colour and depth. Submit and present follow.
PxComposite ==
    /\ pixel.pass = "transparent"
    /\ pixel.k > Len(SetupOrder("transparent"))
    /\ \E cz \in Depths :
         LET f == [covers |-> TRUE, depth |-> cz, a |-> 0, r |-> 0]
         IN  pixel' = [pixel EXCEPT !.pass = "idle", !.k = 0,
                                    !.consumed = pixel.tex,
                                    !.drawn = <<>>,
                                    !.tex = OpaqueDraw(@, "composite", f),
                                    !.after = "frame"]
    /\ UNCHANGED <<programVars, entity>>

PixelNext ==
    \/ PxResize
    \/ PxBeginOpaque
    \/ PxOpaqueDraw
    \/ PxBeginTransparent
    \/ PxTransparentDraw
    \/ PxComposite

PixelSpec == PixelInit /\ [][PixelNext]_vars

\* ------------------------------------------------------------- world entities
\* One WorldEntity, a PerspectiveCamera or a ColoredObject, from the builder's
\* new() through build() and the GameObject methods. The arithmetic is exact:
\* positions are integer points of a cube, rotations are quarter turns about
\* the axes, and a look_at_point is taken from a point on an axis through the
\* position, so that every normalisation is that of an axis-aligned vector.
\* A quaternion is kept as the shortest integer vector of its direction; the
\* unit quaternion it stands for is that vector divided by its length.
MaxCoord == 1

Coords == -MaxCoord..MaxCoord

Points == {<<a, b, c>> : a \in Coords, b \in Coords, c \in Coords}

\* The scales set_scale is called with: unit, uniform and not uniform.
Scales == {<<1, 1, 1>>, <<2, 2, 2>>, <<1, 2, 3>>}

VecZero == <<0, 0, 0>>

\* The distances of a translate call: one unit along an axis.
Steps == {d \in Points : d[1] * d[1] + d[2] * d[2] + d[3] * d[3] = 1}

VAdd(u, v) == <<u[1] + v[1], u[2] + v[2], u[3] + v[3]>>

VSub(u, v) == <<u[1] - v[1], u[2] - v[2], u[3] - v[3]>>

VScale(k, v) == <<k * v[1], k * v[2], k * v[3]>>

\* Vec3::cross.
Cross(u, v) ==
    <<u[2] * v[3] - u[3] * v[2], u[3] * v[1] - u[1] * v[3], u[1] * v[2] - u[2] * v[1]>>

Abs(n) == IF n < 0 THEN -n ELSE n

Sign(n) == IF n > 0 THEN 1 ELSE IF n < 0 THEN -1 ELSE 0

AxisAligned(v) == Cardinality({i \in 1..3 : v[i] # 0}) <= 1

\* Vec3::normalize_or_zero of an axis-aligned vector.
NormalizeOrZero(v) == <<Sign(v[1]), Sign(v[2]), Sign(v[3])>>

RECURSIVE Gcd(_, _)
Gcd(a, b) == IF b = 0 THEN a ELSE Gcd(b, a % b)

QuatIdentity == <<0, 0, 0, 1>>

\* Quat::normalize of a non-zero quaternion: its direction.
QuatNormalize(q) ==
    LET g == Gcd(Gcd(Abs(q[1]), Abs(q[2])), Gcd(Abs(q[3]), Abs(q[4])))
    IN  <<q[1] \div g, q[2] \div g, q[3] \div g, q[4] \div g>>

\* Quat::mul_quat, followed by normalize.
MulQuat(a, b) ==
    QuatNormalize(
      <<a[4] * b[1] + a[1] * b[4] + a[2] * b[3] - a[3] * b[2],
        a[4] * b[2] - a[1] * b[3] + a[2] * b[4] + a[3] * b[1],
        a[4] * b[3] + a[1] * b[2] - a[2] * b[1] + a[3] * b[4],
        a[4] * b[4] - a[1] * b[1] - a[2] * b[2] - a[3] * b[3]>>)

\* Mutant of Mat3FromQuat: the quaternion is used as given, not normalised.
Mat3FromQuat_Unnormalized(q) ==
    LET x == q[1]
        y == q[2]
        z == q[3]
        w == q[4]
    IN  [x |-> <<w*w + x*x - y*y - z*z, 2 * (x*y + w*z), 2 * (x*z - w*y)>>,
         y |-> <<2 * (x*y - w*z), w*w - x*x + y*y - z*z, 2 * (y*z + w*x)>>,
         z |-> <<2 * (x*z + w*y), 2 * (y*z - w*x), w*w - x*x - y*y + z*z>>]

\* Mat3::from_quat(q.normalize()): the rotation matrix of the unit quaternion
\* in the direction of q, by columns.
Mat3FromQuat(q) ==
    LET x == q[1]
        y == q[2]
        z == q[3]
        w == q[4]
        n == x*x + y*y + z*z + w*w
    IN  [x |-> <<(w*w + x*x - y*y - z*z) \div n, (2 * (x*y + w*z)) \div n,
                 (2 * (x*z - w*y)) \div n>>,
         y |-> <<(2 * (x*y - w*z)) \div n, (w*w - x*x + y*y - z*z) \div n,
                 (2 * (y*z + w*x)) \div n>>,
         z |-> <<(2 * (x*z + w*y)) \div n, (2 * (y*z - w*x)) \div n,
                 (w*w - x*x - y*y + z*z) \div n>>]

\* Quat::from_mat3 (glam's from_rotation_axes) of the columns x, y, z, up to
\* the positive factor 0.5 / sqrt(four_?sq) every branch multiplies by.
FromRotationAxes(x, y, z) ==
    IF z[3] <= 0
      THEN LET dif10 == y[2] - x[1]
               omm22 == 1 - z[3]
           IN  IF dif10 <= 0
                 THEN <<omm22 - dif10, x[2] + y[1], x[3] + z[1], y[3] - z[2]>>
                 ELSE <<x[2] + y[1], omm22 + dif10, y[3] + z[2], z[1] - x[3]>>
      ELSE LET sum10 == y[2] + x[1]
               opm22 == 1 + z[3]
           IN  IF sum10 <= 0
                 THEN <<x[3] + z[1], y[3] + z[2], opm22 - sum10, x[2] - y[1]>>
                 ELSE <<y[3] - z[2], z[1] - x[3], x[2] - y[1], opm22 + sum10>>

\* Quat::from_rotation_x / _y / _z of a quarter turn.
QuarterTurns == {<<1, 0, 0, 1>>, <<0, 1, 0, 1>>, <<0, 0, 1, 1>>}

NoView == [valid |-> FALSE]

\* The axes Quat::from_rotation_x, _y and _z turn about.
Axes == {<<1, 0, 0>>, <<0, 1, 0>>, <<0, 0, 1>>}

\* The angles of a rotate, in quarter turns: none and one.
Turns == {0, 1}

\* Quat::from_rotation_x / _y / _z of k quarter turns about the axis a:
\* (a * sin(angle / 2), cos(angle / 2)), by its direction.
FromRotationAxis(a, k) ==
    CASE k % 4 = 0 -> QuatIdentity
      [] k % 4 = 1 -> <<a[1], a[2], a[3], 1>>
      [] k % 4 = 2 -> <<a[1], a[2], a[3], 0>>
      [] OTHER -> <<a[1], a[2], a[3], -1>>

\* What is remembered of the call made last: which GameObject method it was,
\* for a look_at_point of the builder or the entity its point, and for a
\* rotate the axis and the angle its quaternion was made from.
NoRotation == [axis |-> VecZero, turns |-> 0]

NoOp == [op |-> "other", point |-> VecZero, rotation |-> NoRotation]

\* Mat4::from_scale_rotation_translation: the columns of the rotation, each
\* times its scale component, and the translation.
FromScaleRotationTranslation(scale, q, translation) ==
    LET m == Mat3FromQuat(q)
    IN  [x |-> VScale(scale[1], m.x), y |-> VScale(scale[2], m.y),
         z |-> VScale(scale[3], m.z), w |-> translation]

\* Mat3 (a record of columns) times a vector.
MulVec(m, v) == VAdd(VAdd(VScale(v[1], m.x), VScale(v[2], m.y)), VScale(v[3], m.z))

\* Mat4::mul_mat4 of two transforms whose last row is (0, 0, 0, 1).
MulMat4(a, b) ==
    [x |-> MulVec(a, b.x), y |-> MulVec(a, b.y), z |-> MulVec(a, b.z),
     w |-> VAdd(MulVec(a, b.w), a.w)]

IdentityTransform ==
    [x |-> <<1, 0, 0>>, y |-> <<0, 1, 0>>, z |-> <<0, 0, 1>>, w |-> VecZero]

\* Mutant of RotateBy: the rotation turns the basis columns only, the entity
\* turning where it stands.
RotateBy_InPlace(t, q) ==
    LET m == Mat3FromQuat(q)
    IN  [x |-> MulVec(m, t.x), y |-> MulVec(m, t.y), z |-> MulVec(m, t.z), w |-> t.w]

\* GameObject::rotate: mat = Mat4::from_quat(rotation.normalize()) and
\* *transform = mat.mul_mat4(transform).
RotateBy(t, q) ==
    LET m == Mat3FromQuat(q)
    IN  MulMat4([x |-> m.x, y |-> m.y, z |-> m.z, w |-> VecZero], t)

\* GameObject::translate_local: the normalised columns times the components of
\* the distance, added to the position.
TranslateLocal(t, d) ==
    [t EXCEPT !.w = VAdd(@, VAdd(VAdd(VScale(d[1], NormalizeOrZero(t.x)),
                                      VScale(d[2], NormalizeOrZero(t.y))),
                                 VScale(d[3], NormalizeOrZero(t.z))))]

\* GameObject::look_at_point.
LookAtPoint(t, point) ==
    LET look  == NormalizeOrZero(VSub(t.w, point))
        right == NormalizeOrZero(Cross(t.y, look))
        up    == NormalizeOrZero(Cross(look, right))
    IN  [t EXCEPT !.x = right, !.y = up, !.z = look]

\* PerspectiveCameraBuilder::look_at_point: the new rotation.
CameraBuilderLookAt(rotation, translation, point) ==
    LET up0   == NormalizeOrZero(Mat3FromQuat(rotation).y)
        look  == NormalizeOrZero(VSub(translation, point))
        right == Cross(up0, look)
        up    == Cross(look, right)
    IN  QuatNormalize(FromRotationAxes(right, up, look))

\* ColordObjectBuilder::look_at_point: the new rotation, which the builder
\* stores as from_mat3 returns it.
ObjectBuilderLookAt(rotation, translation, point) ==
    LET up0   == NormalizeOrZero(Mat3FromQuat(rotation).y)
        look  == NormalizeOrZero(VSub(point, translation))
        right == NormalizeOrZero(Cross(up0, look))
        up    == NormalizeOrZero(Cross(look, right))
    IN  QuatNormalize(FromRotationAxes(right, up, look))

\* from_mat3 returns a unit quaternion when its columns are a rotation: here,
\* when the previous up and the new look are not parallel.
LookAtIsRotation(rotation, from, to) ==
    Cross(Mat3FromQuat(rotation).y, NormalizeOrZero(VSub(to, from))) # VecZero

\* GameCameraObject::get_camera_transform, by columns: the 3x3 block has the
\* normalised right, up and look as its rows.
CameraTransform(t) ==
    LET right == NormalizeOrZero(t.x)
        up    == NormalizeOrZero(t.y)
        look  == NormalizeOrZero(t.z)
    IN  [valid |-> TRUE,
         x |-> <<right[1], up[1], look[1]>>,
         y |-> <<right[2], up[2], look[2]>>,
         z |-> <<right[3], up[3], look[3]>>,
         w |-> <<-Dot(t.w, right), -Dot(t.w, up), -Dot(t.w, look)>>]

EntityInit ==
    /\ ProgramInit
    /\ entity = NoEntity
    /\ pixel = NoPixel

NewBuilder(kind, scale) ==
    [phase |-> "builder", kind |-> kind, translation |-> VecZero,
     rotation |-> QuatIdentity, unit |-> TRUE, scale |-> scale,
     transform |-> NoTransform, view |-> NoView, rewritten |-> FALSE, last |-> NoOp]

\* PerspectiveCameraBuilder::new: translation ZERO, rotation IDENTITY. A camera
\* has no scale; its columns are those of the rotation.
EnNewCamera ==
    /\ entity.phase = "none"
    /\ entity' = NewBuilder("camera", <<1, 1, 1>>)
    /\ UNCHANGED <<programVars, pixel>>

\* ColordObjectBuilder::new: Self::default(), with scale (0, 0, 0).
EnNewObject ==
    /\ entity.phase = "none"
    /\ entity' = NewBuilder("object", VecZero)
    /\ UNCHANGED <<programVars, pixel>>

\* set_translation of either builder, called while the translation is the
\* one new() gave: a later call replaces what an earlier one set.
EnSetTranslation ==
    /\ entity.phase = "builder"
    /\ entity.translation = VecZero
    /\ \E t \in Points :
         entity' = [entity EXCEPT !.translation = t,
                                  !.last = NoOp]
    /\ UNCHANGED <<programVars, pixel>>

\* ColordObjectBuilder::set_scale.
EnSetScale ==
    /\ entity.phase = "builder"
    /\ entity.kind = "object"
    /\ \E s \in Scales :
         entity' = [entity EXCEPT !.scale = s,
                                  !.last = NoOp]
    /\ UNCHANGED <<programVars, pixel>>

\* rotate of either builder: self.rotation *= rotation.normalize().
EnBuilderRotate ==
    /\ entity.phase = "builder"
    /\ \E q \in QuarterTurns :
         entity' = [entity EXCEPT !.rotation = MulQuat(@, q),
                                  !.last = NoOp]
    /\ UNCHANGED <<programVars, pixel>>

\* look_at_point of either builder, from a point on an axis through the
\* translation. The object's builder reads its rotation without normalising
\* it, so the step is taken there only from a unit rotation.
EnBuilderLookAtPoint ==
    /\ entity.phase = "builder"
    /\ entity.kind = "object" => entity.unit
    /\ \E p \in Points :
         /\ p # entity.translation
         /\ AxisAligned(VSub(entity.translation, p))
         /\ entity' =
              [entity EXCEPT
                 !.rotation = IF entity.kind = "camera"
                                THEN CameraBuilderLookAt(@, entity.translation, p)
                                ELSE ObjectBuilderLookAt(@, entity.translation, p),
                 !.unit = entity.kind = "camera"
                            \/ LookAtIsRotation(entity.rotation, entity.translation, p),
                 !.last = [op |-> "look_at_point", point |-> p, rotation |-> NoRotation]]
    /\ UNCHANGED <<programVars, pixel>>

\* build of either builder: from_rotation_translation(rotation.normalize(),
\* translation) for the camera, from_scale_rotation_translation(scale,
\* rotation.normalize(), translation) for the object.
EnBuild ==
    /\ entity.phase = "builder"
    /\ entity' = [entity EXCEPT
                    !.phase = "built",
                    !.transform = FromScaleRotationTranslation(
                                      entity.scale, entity.rotation, entity.translation),
                    !.translation = VecZero, !.rotation = QuatIdentity, !.unit = TRUE,
                    !.last = NoOp]
    /\ UNCHANGED <<programVars, pixel>>

\* GameObject::rotate.
EnRotate ==
    /\ entity.phase = "built"
    /\ \E a \in Axes, k \in Turns :
         entity' = [entity EXCEPT !.transform = RotateBy(@, FromRotationAxis(a, k)),
                                  !.view = NoView,
                                  !.last = [op |-> "rotate", point |-> VecZero,
                                            rotation |-> [axis |-> a, turns |-> k]]]
    /\ UNCHANGED <<programVars, pixel>>

\* GameObject::translate_local, while the position stays in the cube.
EnTranslateLocal ==
    /\ entity.phase = "built"
    /\ \E d \in Steps :
         /\ TranslateLocal(entity.transform, d).w \in Points
         /\ entity' = [entity EXCEPT !.transform = TranslateLocal(@, d), !.view = NoView,
                                     !.last = [op |-> "translate_local", point |-> VecZero, rotation |-> NoRotation]]
    /\ UNCHANGED <<programVars, pixel>>

\* GameObject::translate_world, while the position stays in the cube.
EnTranslateWorld ==
    /\ entity.phase = "built"
    /\ \E d \in Steps :
         /\ VAdd(entity.transform.w, d) \in Points
         /\ entity' = [entity EXCEPT !.transform.w = VAdd(@, d), !.view = NoView,
                                     !.last = [op |-> "translate_world", point |-> VecZero, rotation |-> NoRotation]]
    /\ UNCHANGED <<programVars, pixel>>

\* GameObject::look_at_point, from a point on an axis through the position.
EnLookAtPoint ==
    /\ entity.phase = "built"
    /\ \E p \in Points :
         /\ p # entity.transform.w
         /\ AxisAligned(VSub(entity.transform.w, p))
         /\ entity' = [entity EXCEPT !.transform = LookAtPoint(@, p), !.view = NoView,
                                     !.rewritten = TRUE,
                                     !.last = [op |-> "look_at_point", point |-> p, rotation |-> NoRotation]]
    /\ UNCHANGED <<programVars, pixel>>

\* GameObject::set_rotation: the three basis columns become those of
\* Mat4::from_quat(rotation.normalize()).
SetRotation(t, q) ==
    LET m == Mat3FromQuat(q)
    IN  [t EXCEPT !.x = m.x, !.y = m.y, !.z = m.z]

EnSetRotation ==
    /\ entity.phase = "built"
    /\ \E q \in QuarterTurns :
         entity' = [entity EXCEPT !.transform = SetRotation(@, q), !.view = NoView,
                                  !.rewritten = TRUE,
                                  !.last = [op |-> "set_rotation", point |-> VecZero, rotation |-> NoRotation]]
    /\ UNCHANGED <<programVars, pixel>>

\* GameCameraObject::get_camera_transform of the camera.
EnGetCameraTransform ==
    /\ entity.phase = "built"
    /\ entity.kind = "camera"
    /\ ~entity.view.valid
    /\ entity' = [entity EXCEPT !.view = CameraTransform(entity.transform)]
    /\ UNCHANGED <<programVars, pixel>>

EntityNext ==
    \/ EnNewCamera
    \/ EnNewObject
    \/ EnSetTranslation
    \/ EnSetScale
    \/ EnBuilderRotate
    \/ EnBuilderLookAtPoint
    \/ EnBuild
    \/ EnRotate
    \/ EnTranslateLocal
    \/ EnTranslateWorld
    \/ EnLookAtPoint
    \/ EnSetRotation
    \/ EnGetCameraTransform

EntitySpec == EntityInit /\ [][EntityNext]_vars

\* =================================================================== claims

\* C1: whenever the render thread records a frame, the accum, reveal and
\* depth-stencil textures and the surface configuration have one width and
\* height.
C1_SameSizeAtRecord ==
    pc_r = "record" =>
        /\ SizeOf(accum) = config
        /\ SizeOf(reveal) = config
        /\ SizeOf(depth) = config

\* C2: whenever a frame is recorded, the accum/reveal bind group was built from
\* the accum and reveal views that are the transparent pass's attachments now.
C2_BindGroupCurrent ==
    pc_r = "record" =>
        /\ accum.gen > 0
        /\ reveal.gen > 0
        /\ oit_bind_group.accum = accum.gen
        /\ oit_bind_group.reveal = reveal.gen

\* C2 witness: a frame is recorded after a resize has replaced the textures.
C2_Witness ==
    /\ pc_r = "record"
    /\ accum.gen > 1
    /\ reveal.gen > 1

ZeroResized(e) == e.type = "Resized" /\ (e.w = 0 \/ e.h = 0)

\* C3: handling a Resized event with a zero width or height changes neither the
\* surface configuration, the three textures nor the bind group, and starts no
\* device synchronisation, surface reconfiguration or texture creation.
C3_ZeroResizeIgnored ==
    /\ [](ZeroResized(lastHandled) => rsLog = <<>>)
    /\ [][(pc_r = "dispatch" /\ pc_r' # pc_r /\ ZeroResized(event)) =>
            /\ UNCHANGED resources
            /\ UNCHANGED inflight
            /\ rsLog' = <<>>
            /\ pc_r' = "pop"]_vars

\* C3 witness: a zero-sized Resized has been handled.
C3_Witness ==
    /\ ZeroResized(lastHandled)
    /\ pc_r = "pop"

Precedes(a, b, log) ==
    \E i, j \in DOMAIN log : i < j /\ log[i] = a /\ log[j] = b

TextureOps == {"accum", "reveal", "depth"}

\* C4: in the handling of a positive-size Resized the full device
\* synchronisation comes before the surface reconfiguration, which comes before
\* every texture replacement, and a texture is replaced only when no submitted
\* GPU work is in flight.
C4_DrainConfigureReplace ==
    /\ [](\A i \in DOMAIN rsLog :
            /\ rsLog[i] = "configure" => Precedes("poll_all", "configure", rsLog)
            /\ rsLog[i] \in TextureOps => Precedes("configure", rsLog[i], rsLog))
    /\ [][/\ (config # <<0, 0>> /\ config' # config) =>
                /\ inflight = 0
                /\ rsLog = <<"poll_all">>
                /\ rsLog' = <<"poll_all", "configure">>
          /\ (\/ accum.gen > 0 /\ accum' # accum
              \/ reveal.gen > 0 /\ reveal' # reveal
              \/ depth.gen > 0 /\ depth' # depth) =>
                /\ inflight = 0
                /\ rsLog' # rsLog
                /\ rsLog'[Len(rsLog')] \in TextureOps
                /\ config = <<event.w, event.h>>]_vars

\* C4 witness: a positive-size Resized has been handled to its end.
C4_Witness ==
    /\ pc_r = "pop"
    /\ lastHandled.type = "Resized"
    /\ Len(rsLog) = 6

\* C5: once IS_RUNNING is false, the render thread eventually has left its
\* frame loop and ended.
C5_RenderObservesClose ==
    (IS_RUNNING = FALSE) ~> RenderFinished

\* C6: when main returns, the render thread has ended and has been joined.
C6_JoinedBeforeExit ==
    pc_w = "returned" => (join = "none" /\ RenderFinished)

\* C7: the k-th event the render thread handles is the k-th event pushed, and
\* the queue holds the pushed events not yet popped, oldest first.
C7_FifoOnce ==
    /\ pc_r = "dispatch" => event.seq = nHandled + 1
    /\ nHandled > 0 => lastHandled.seq = nHandled
    /\ nHandled <= nPushed
    /\ \A i \in DOMAIN EVENT_QUEUE :
           EVENT_QUEUE[i].seq = nPushed - Len(EVENT_QUEUE) + i

\* C7 witness: two events have been handled.
C7_Witness ==
    /\ nHandled >= 2
    /\ pc_r = "pop"

\* C8: only the window thread adds to the queue and only the render thread
\* removes from it, and the window thread's push is enabled whenever it has
\* reached it.
C8_PushNeverWaits ==
    /\ [](pc_w = "push" => ENABLED WPush)
    /\ [][/\ Len(EVENT_QUEUE') > Len(EVENT_QUEUE) =>
                 (pc_w = "push" /\ pc_w' # pc_w /\ pc_r' = pc_r)
          /\ Len(EVENT_QUEUE') < Len(EVENT_QUEUE) =>
                 (pc_r = "pop" /\ pc_r' = "dispatch" /\ pc_w' = pc_w)]_vars

\* C8 witness: the window thread pushes onto a non-empty queue while the render
\* thread is blocked in its per-frame GPU wait.
C8_Witness ==
    /\ pc_w = "push"
    /\ Len(EVENT_QUEUE) >= 1
    /\ pc_r = "poll"
    /\ inflight > 0

\* C9 (as stated): the window thread never waits: its join and its poll_all are
\* enabled whenever it has reached them.
C9_WindowNeverWaits ==
    /\ pc_w = "join" => ENABLED WJoin
    /\ pc_w = "poll_all" => ENABLED MainPollAll

WindowBlocked ==
    /\ pc_w \notin {"wait", "returned", "panicked"}
    /\ ~ENABLED WindowStep

RenderBlocked ==
    /\ RenderRunning
    /\ ~ProcessExited
    /\ ~ENABLED RenderStep

\* C9 (amended): the window thread waits for GPU work only in the
\* instance.poll_all(true) that follows its event loop, and never for the
\* render thread; the render thread waits only in device.poll and in the
\* Resized arm's instance.poll_all.
C9_WaitsOnlyInFinalPollAll ==
    /\ WindowBlocked => (pc_w = "poll_all" /\ exitReq /\ inflight > 0)
    /\ pc_w = "join" => RenderFinished
    /\ RenderBlocked => (pc_r \in {"poll", "rs_poll_all"} /\ inflight > 0)

\* C9 witness: main, having joined the render thread, waits in its final
\* poll_all for the last submitted frame.
C9_Witness ==
    /\ pc_w = "poll_all"
    /\ join = "none"
    /\ inflight > 0

\* C10: while the render thread runs, the window thread is at no GPU operation.
C10_RenderThreadOwnsGpu ==
    ~(pc_w \in {"setup", "poll_all"} /\ RenderRunning)

\* ------------------------------------------------------------- frame claims
FrameOps == {"encoder", "opaque", "transparent", "composite", "submit", "present"}

IsFrameOp(op) == op \in FrameOps

\* The recording, submission and presentation steps of this iteration so far.
FrameOpsDone == SelectSeq(frameLog, IsFrameOp)

FrameOrder == <<"encoder", "opaque", "transparent", "composite", "submit", "present">>

IsPrefix(s, t) == Len(s) <= Len(t) /\ \A i \in DOMAIN s : s[i] = t[i]

Logged(op) == \E i \in DOMAIN frameLog : frameLog[i] = op

\* C11: the recording steps of an iteration are one encoder, then the opaque,
\* the transparent and the composite pass, then one submit, then one present;
\* a command buffer is submitted only with exactly these three passes recorded,
\* and an iteration that ends has done each step once.
C11_PassesSubmitPresentInOrder ==
    /\ [](IsPrefix(FrameOpsDone, FrameOrder))
    /\ [][inflight' > inflight =>
            /\ inflight' = inflight + 1
            /\ FrameOpsDone = <<"encoder", "opaque", "transparent", "composite">>
            /\ frameLog' = Append(frameLog, "submit")]_vars
    /\ []((pc_r = "loop_check" /\ frameLog # <<>>) => FrameOpsDone = FrameOrder)

\* C11 witness: an iteration has recorded, submitted and presented its frame.
C11_Witness ==
    /\ pc_r = "loop_check"
    /\ FrameOpsDone = FrameOrder
    /\ inflight > 0

HandlingPcs == {"dispatch", "rs_poll_all", "rs_configure", "rs_accum", "rs_reveal",
                "rs_bind_group", "rs_depth"}

\* C12: whatever an iteration does after its drain follows a pop that found
\* the queue empty; events are popped and handled only before that pop, so
\* none is popped between it and the submission.
C12_DrainBeforeFrame ==
    /\ [](frameLog # <<>> => frameLog[1] = "empty_pop")
    /\ [](pc_r \in HandlingPcs => frameLog = <<>>)
    /\ [][(frameLog = <<>> /\ frameLog' # <<>>) =>
            (pc_r = "pop" /\ EVENT_QUEUE = <<>> /\ EVENT_QUEUE' = <<>>)]_vars
    /\ [][Len(EVENT_QUEUE') < Len(EVENT_QUEUE) =>
            (pc_r = "pop" /\ frameLog = <<>> /\ frameLog' = <<>>)]_vars

\* C12 witness: an iteration that handled an event in its drain is about to
\* submit its frame while a later event waits in the queue.
C12_Witness ==
    /\ pc_r = "submit"
    /\ nHandled >= 1
    /\ lastHandled.type = "Resized"
    /\ EVENT_QUEUE # <<>>

\* C13: no frame is left with its recording started and never submitted,
\* neither by the end of the process nor by the end of the render thread.
C13_StartedFrameSubmitted ==
    (ProcessExited \/ pc_r = "panicked") =>
        ~(Logged("encoder") /\ ~Logged("submit"))

AcquireFailed == Logged("acquire_err")

\* C14: a failed get_current_texture is the last thing the render thread does:
\* the thread has panicked there, and afterwards it records, submits, presents
\* and reconfigures nothing.
C14_AcquireFailureIsFatal ==
    /\ [](AcquireFailed =>
            /\ pc_r = "panicked"
            /\ frameLog[Len(frameLog)] = "acquire_err"
            /\ ~Logged("encoder"))
    /\ [][AcquireFailed =>
            /\ UNCHANGED <<pc_r, frameLog, resources, rsLog>>
            /\ inflight' <= inflight]_vars
    /\ [][(pc_r = "acquire" /\ pc_r' # "acquire") =>
            \/ pc_r' = "record" /\ ~AcquireFailed'
            \/ pc_r' = "panicked" /\ AcquireFailed' /\ UNCHANGED <<resources, inflight>>]_vars

\* C14 witness: the acquire failed in an iteration that followed a resize.
C14_Witness ==
    /\ AcquireFailed
    /\ pc_r = "panicked"
    /\ config # InitialSize

\* C15: a render thread that has panicked while IS_RUNNING is true leads to the
\* window thread re-raising the panic, at the latest when the OS has delivered
\* all the events it may deliver here.
C15_PanicObserved ==
    (pc_r = "panicked" /\ IS_RUNNING) ~> (pc_w = "panicked" \/ nEvents >= MaxEvents)

\* C20 (as stated): in the Resized arm the bind group is created after the new
\* accum, reveal and depth-stencil textures.
C20_BindGroupLast ==
    \A i \in DOMAIN rsLog :
        rsLog[i] = "bind_group" =>
            /\ Precedes("accum", "bind_group", rsLog)
            /\ Precedes("reveal", "bind_group", rsLog)
            /\ Precedes("depth", "bind_group", rsLog)

\* C20 (amended): in the Resized arm the bind group is created after the new
\* accum and reveal textures, the two it reads, and from exactly these; the new
\* depth-stencil texture is created after the bind group and is the last
\* resource of the arm.
C20_BindGroupAfterItsTextures ==
    /\ [](\A i \in DOMAIN rsLog :
            /\ rsLog[i] = "bind_group" =>
                 /\ Precedes("accum", "bind_group", rsLog)
                 /\ Precedes("reveal", "bind_group", rsLog)
                 /\ ~Precedes("depth", "bind_group", rsLog)
            /\ rsLog[i] = "depth" => i = Len(rsLog))
    /\ [][(oit_bind_group.accum > 0 /\ oit_bind_group' # oit_bind_group) =>
            /\ rsLog' = <<"poll_all", "configure", "accum", "reveal", "bind_group">>
            /\ oit_bind_group' = [accum |-> accum.gen, reveal |-> reveal.gen]
            /\ SizeOf(accum) = <<event.w, event.h>>
            /\ SizeOf(reveal) = <<event.w, event.h>>]_vars

\* C20 witness: a Resized arm has run to its end, depth-stencil texture last.
C20_Witness ==
    /\ rsLog = <<"poll_all", "configure", "accum", "reveal", "bind_group", "depth">>
    /\ SizeOf(depth) = <<lastHandled.w, lastHandled.h>>

\* ------------------------------------------------------------- scene claims
RecordingPcs == {"record", "opaque", "transparent", "composite", "submit"}

\* Every uniform buffer holds what update_shader_resource would write now.
BuffersCurrent ==
    /\ cameraBuf = CameraUniform(camera)
    /\ \A o \in ObjectNames :
         /\ objects[o].built
         /\ objectBuf[o] = ObjectUniform(objects[o])

\* C16: from the start of a frame's recording to its submission every
\* entity's uniform buffer holds the entity's current state, and a step that
\* changes the camera or an object uploads it in the same handler.
C16_BuffersCurrentAtSubmit ==
    /\ [](pc_r \in RecordingPcs => BuffersCurrent)
    /\ [][camera' # camera => cameraBuf' = CameraUniform(camera')]_vars
    /\ [][objects' # objects =>
            \A o \in ObjectNames : objectBuf'[o] = ObjectUniform(objects'[o])]_vars

\* C16 witness: a frame is submitted after a key press has turned the camera.
C16_Witness ==
    /\ pc_r = "submit"
    /\ lastKey.code # "None"
    /\ camera.transform # lastKey.before

C18_LeftRightRoundTrip ==
    [][(/\ pc_r = "dispatch"
        /\ pc_r' # pc_r
        /\ IsTurnKey(event)
        /\ lastKey.code \in {"ArrowLeft", "ArrowRight"}
        /\ lastKey.code # event.code
        /\ lastKey.d = dt') =>
         camera'.transform = lastKey.before]_vars

\* C18 witness: ArrowLeft then ArrowRight, a quarter turn each, have been
\* handled in different iterations and the camera is back where it was built.
C18_Witness ==
    /\ nHandled = 2
    /\ lastKey = [code |-> "ArrowRight", d |-> 1,
                  before |-> Rotate(BuildCamera(camera.aspect).transform, -1)]
    /\ camera.transform = BuildCamera(camera.aspect).transform
    /\ dt = 0
    /\ Logged("present")

SameRatio(a, b) == a[1] * b[2] = b[1] * a[2]

\* C19: once a Resized of positive size has been handled to its end, the
\* camera's projection, and the one in its uniform buffer, have the aspect
\* ratio of that size.
C19_AspectFollowsResize ==
    (/\ lastHandled.type = "Resized"
     /\ ResizeAccepted(lastHandled)
     /\ Len(rsLog) = 6) =>
        /\ SameRatio(GetProjectionTransform(camera).aspect,
                     <<lastHandled.w, lastHandled.h>>)
        /\ SameRatio(cameraBuf.projection_matrix.aspect,
                     <<lastHandled.w, lastHandled.h>>)

\* ---------------------------------------------------- resize and draw claims
\* The Resized arm of the event handled last has run to its end.
ResizeHandled ==
    /\ lastHandled.type = "Resized"
    /\ ResizeAccepted(lastHandled)
    /\ Len(rsLog) = 6

\* What a frame is recorded against, the identity of the textures apart.
ResourceState ==
    [config |-> config, accum |-> SizeOf(accum), reveal |-> SizeOf(reveal),
     depth |-> SizeOf(depth), bound |-> oit_bind_group = CreateOitBindGroup]

ResizedTo(s) == [config |-> s, accum |-> s, reveal |-> s, depth |-> s, bound |-> TRUE]

\* C21: the resources left by a handled Resized of positive size are fixed by
\* its size alone; the second of two such events of one size in a row starts
\* from that state and ends in it, each time with textures built anew.
C21_ResizeIdempotent ==
    /\ [](ResizeHandled => ResourceState = ResizedTo(<<lastHandled.w, lastHandled.h>>))
    /\ [][(pc_r = "dispatch" /\ pc_r' # pc_r /\ RepeatsResize(lastHandled, event)) =>
            /\ repeated'
            /\ ResourceState = ResizedTo(<<event.w, event.h>>)]_vars
    /\ []((ResizeHandled /\ repeated) =>
            /\ accum.gen >= 3
            /\ reveal.gen >= 3
            /\ depth.gen >= 3)

\* C21 witness: a frame is recorded after two Resized events of one size, not
\* the window's first size, have been handled one after the other.
C21_Witness ==
    /\ pc_r = "record"
    /\ ResizeHandled
    /\ repeated
    /\ config # InitialSize

\* What the iteration has logged after the pass marker `op`, up to the next
\* recording step.
PassSegment(op) ==
    LET i == CHOOSE k \in DOMAIN frameLog : frameLog[k] = op
        later == {k \in DOMAIN frameLog : k > i /\ frameLog[k] \in FrameOps}
        j == IF later = {} THEN Len(frameLog) + 1
             ELSE CHOOSE k \in later : \A m \in later : k <= m
    IN  SubSeq(frameLog, i + 1, j - 1)

IsDraw(op) == op \in ObjectNames

\* C25: pass 1 binds the camera and then draws the opaque objects, pass 2 binds
\* the camera and then draws the transparent objects, each object once and in
\* the order of the setup's pushes; nothing is drawn outside the two passes,
\* and the objects change only where the setup builds them.
C25_DrawsInSceneOrder ==
    /\ [](Logged("opaque") =>
            PassSegment("opaque") = <<"camera">> \o SetupOrder("opaque"))
    /\ [](Logged("transparent") =>
            PassSegment("transparent") = <<"camera">> \o SetupOrder("transparent"))
    /\ [](IsPrefix(SelectSeq(frameLog, IsDraw),
                   SetupOrder("opaque") \o SetupOrder("transparent")))
    /\ [](Logged("composite") =>
            Len(SelectSeq(frameLog, IsDraw)) = Cardinality(ObjectNames))
    /\ [][objects' # objects => (pc_r = "i_objects" /\ pc_r' = "i_accum_w")]_vars
    /\ [](pc_r \in RecordingPcs =>
            /\ ObjectsOf("opaque") = SetupOrder("opaque")
            /\ ObjectsOf("transparent") = SetupOrder("transparent"))

\* C25 witness: a frame that follows a handled event has been recorded and
\* presented with its seven draws.
C25_Witness ==
    /\ pc_r = "loop_check"
    /\ Logged("present")
    /\ nHandled >= 1
    /\ Len(SelectSeq(frameLog, IsDraw)) = 7

\* C26: the render thread goes on from device.poll to the acquire only with no
\* submitted work unfinished, it submits only then, and so at most one
\* submitted frame is in flight.
C26_OneFrameInFlight ==
    /\ [](inflight <= 1)
    /\ [](pc_r \in ({"acquire"} \cup RecordingPcs) => inflight = 0)
    /\ [][(pc_r = "poll" /\ pc_r' = "acquire") => (inflight = 0 /\ inflight' = 0)]_vars
    /\ [][inflight' > inflight => (inflight = 0 /\ pc_r = "submit")]_vars

\* C26 witness: the render thread, its drain done, waits in device.poll for
\* the frame it submitted in the iteration before.
C26_Witness ==
    /\ pc_r = "poll"
    /\ inflight = 1
    /\ Logged("empty_pop")
    /\ ~ENABLED RenderStep

\* ------------------------------------------------------------ pixel claims

RECURSIVE DrawAll(_, _)
\* The pixel after the transparent draws of fs, in that order.
DrawAll(t, fs) ==
    IF fs = <<>> THEN t ELSE DrawAll(TransparentDraw(t, Head(fs)), Tail(fs))

RECURSIVE DrawAllOpaque(_, _, _)
\* The pixel after the opaque draws of fs, the k-th by the k-th opaque object.
DrawAllOpaque(t, fs, k) ==
    IF fs = <<>> THEN t
    ELSE DrawAllOpaque(OpaqueDraw(t, SetupOrder("opaque")[k], Head(fs)), Tail(fs), k + 1)

Reordered(fs, p) == [i \in DOMAIN fs |-> fs[p[i]]]

\* The pixel as pass 1 starts it and as pass 2 starts it.
PassOneStart == [pixel.tex EXCEPT !.color = "black", !.depth = DepthFar]

PassTwoStart ==
    [color |-> pixel.opaque1.color, depth |-> pixel.opaque1.depth,
     accum |-> 0, reveal |-> RevealOne]

InFront(f) == f.covers /\ f.depth < pixel.opaque1.depth

TransparentDrawStep ==
    /\ pixel.pass = "transparent"
    /\ pixel'.pass = "transparent"
    /\ Len(pixel'.drawn) = Len(pixel.drawn) + 1

LastDrawn == pixel'.drawn[Len(pixel'.drawn)]

\* C22: from accum = 0 and reveal = 1, the accum and reveal the transparent
\* draws leave at the pixel are the same for every order of the draws; a draw
\* that passes the depth test adds its source to accum and multiplies reveal by
\* one minus its source, and no transparent draw changes the depth.
C22_OrderIndependent ==
    /\ [](pixel.pass = "transparent" =>
            \A p \in Permutations(DOMAIN pixel.drawn) :
                LET t == DrawAll(PassTwoStart, Reordered(pixel.drawn, p))
                IN  t.accum = pixel.tex.accum /\ t.reveal = pixel.tex.reveal)
    /\ [][(TransparentDrawStep /\ InFront(LastDrawn)) =>
            /\ pixel'.tex.accum = pixel.tex.accum + LastDrawn.a
            /\ pixel'.tex.reveal * RevealOne =
                   pixel.tex.reveal * (RevealOne - LastDrawn.r)]_vars
    /\ [][TransparentDrawStep => pixel'.tex.depth = pixel.tex.depth]_vars

\* C22 witness: three transparent fragments with different sources were drawn
\* in front of the opaque surface.
C22_Witness ==
    /\ pixel.pass = "transparent"
    /\ Len(pixel.drawn) = 3
    /\ \A i \in 1..3 : InFront(pixel.drawn[i])
    /\ pixel.drawn[1].a # pixel.drawn[2].a
    /\ pixel.drawn[1].r # pixel.drawn[3].r
    /\ pixel.drawn[1].depth > pixel.drawn[2].depth
    /\ pixel.tex.reveal < RevealOne

\* C23: a transparent fragment not strictly nearer than the depth pass 1 left
\* changes neither accum nor reveal, and a pixel where no transparent fragment
\* is nearer holds accum = 0 and reveal = 1 after pass 2.
C23_OccludedContributeNothing ==
    /\ [][(TransparentDrawStep /\ ~InFront(LastDrawn)) =>
            /\ pixel'.tex.accum = pixel.tex.accum
            /\ pixel'.tex.reveal = pixel.tex.reveal]_vars
    /\ []((pixel.pass = "transparent" /\
            \A i \in DOMAIN pixel.drawn : ~InFront(pixel.drawn[i])) =>
                (pixel.tex.accum = 0 /\ pixel.tex.reveal = RevealOne))

\* C23 witness: pass 2 has drawn its three objects at a pixel an opaque object
\* covers, one fragment at the opaque depth and the others behind it.
C23_Witness ==
    /\ pixel.pass = "transparent"
    /\ Len(pixel.drawn) = 3
    /\ pixel.opaque1.color \in ObjectNames
    /\ \A i \in 1..3 : pixel.drawn[i].covers /\ pixel.drawn[i].depth >= pixel.opaque1.depth
    /\ \E i \in 1..3 : pixel.drawn[i].depth = pixel.opaque1.depth
    /\ \E i \in 1..3 : pixel.drawn[i].depth > pixel.opaque1.depth

\* C24: throughout pass 2 and when the composite pass starts, the depth at the
\* pixel is the depth pass 1 left there.
C24_DepthReadOnly ==
    /\ [](pixel.pass = "transparent" => pixel.tex.depth = pixel.opaque1.depth)
    /\ [][(pixel.pass = "transparent" /\ pixel'.pass = "idle") =>
            pixel'.consumed.depth = pixel.opaque1.depth]_vars

\* C24 witness: pass 2 has drawn three fragments that passed the depth test,
\* all nearer than the opaque object pass 1 left at the pixel.
C24_Witness ==
    /\ pixel.pass = "transparent"
    /\ Len(pixel.drawn) = 3
    /\ \A i \in 1..3 : InFront(pixel.drawn[i])
    /\ pixel.opaque1.depth < DepthFar
    /\ pixel.tex.accum >= 3
    /\ pixel.opaque1.color \in ObjectNames

\* C27: pass 1 starts from colour black and depth 1.0 and pass 2 from
\* accum 0 and reveal 1, so that what the composite pass consumes is what the
\* frame's own draws make of the cleared values.
C27_FrameFromClears ==
    /\ [][(pixel.pass = "idle" /\ pixel'.pass = "opaque") =>
            (pixel'.tex.color = "black" /\ pixel'.tex.depth = DepthFar)]_vars
    /\ [][(pixel.pass = "opaque" /\ pixel'.pass = "transparent") =>
            /\ pixel'.tex.accum = 0 /\ pixel'.tex.reveal = RevealOne
            /\ pixel'.opaque1.color = pixel.tex.color
            /\ pixel'.opaque1.depth = pixel.tex.depth]_vars
    /\ [](pixel.pass = "opaque" =>
            LET t == DrawAllOpaque(PassOneStart, pixel.drawn, 1)
            IN  pixel.tex.color = t.color /\ pixel.tex.depth = t.depth)
    /\ [](pixel.pass = "transparent" => pixel.tex = DrawAll(PassTwoStart, pixel.drawn))
    /\ [][(pixel.pass = "transparent" /\ pixel'.pass = "idle") =>
            pixel'.consumed = DrawAll(PassTwoStart, pixel.drawn)]_vars

\* C27 witness: a frame that follows a presented frame and a resize has drawn
\* opaque and transparent fragments at the pixel and is ready to composite.
C27_Witness ==
    /\ pixel.pass = "transparent"
    /\ pixel.k > Len(SetupOrder("transparent"))
    /\ pixel.after = "resize"
    /\ pixel.opaque1.color \in ObjectNames
    /\ pixel.tex.accum > 0
    /\ pixel.tex.reveal < RevealOne

\* ----------------------------------------------------------- entity claims

Perpendicular(t) == Dot(t.x, t.y) = 0 /\ Dot(t.y, t.z) = 0 /\ Dot(t.z, t.x) = 0

Orthonormal(t) ==
    Perpendicular(t) /\ Dot(t.x, t.x) = 1 /\ Dot(t.y, t.y) = 1 /\ Dot(t.z, t.z) = 1

\* The basis and the position of the entity: of a builder, those its build
\* gives the rotation and the translation at hand.
EntityBasis ==
    IF entity.phase = "builder" THEN Mat3FromQuat(entity.rotation) ELSE entity.transform

EntityPosition ==
    IF entity.phase = "builder" THEN entity.translation ELSE entity.transform.w

\* C28: the matrix get_camera_transform returns, multiplied by the camera's
\* world transform, is the identity.
C28_ViewInvertsWorld ==
    (entity.phase = "built" /\ entity.view.valid) =>
        MulMat4(entity.view, entity.transform) = IdentityTransform

C30_LookAtPoint ==
    (entity.phase # "none" /\ entity.last.op = "look_at_point") =>
        /\ EntityBasis.z = NormalizeOrZero(VSub(EntityPosition, entity.last.point))
        /\ Orthonormal(EntityBasis)

\* C31: the three basis columns of a built ColoredObject have the lengths of
\* the scale it was built with, whatever GameObject methods were called since.
C31_ScaleFrozen ==
    (entity.phase = "built" /\ entity.kind = "object") =>
        /\ Dot(entity.transform.x, entity.transform.x) = entity.scale[1] * entity.scale[1]
        /\ Dot(entity.transform.y, entity.transform.y) = entity.scale[2] * entity.scale[2]
        /\ Dot(entity.transform.z, entity.transform.z) = entity.scale[3] * entity.scale[3]

\* C32: IS_RUNNING starts true, changes only in the window thread's close arm
\* and only from true to false, and once it is false the render thread submits
\* at most one more frame.
C32_FlagFallsOnce ==
    /\ IS_RUNNING = TRUE
    /\ [][IS_RUNNING' # IS_RUNNING =>
            /\ IS_RUNNING /\ ~IS_RUNNING'
            /\ pc_w = "match"
            /\ curW.type \in {"CloseRequested", "Destroyed"}]_vars
    /\ [][~IS_RUNNING => ~IS_RUNNING']_vars
    /\ [](lateSubmits <= 1)
    /\ [][(~IS_RUNNING /\ pc_r = "loop_check" /\ pc_r' # pc_r) => pc_r' = "finished"]_vars

\* C32 witness: the render thread has submitted the frame it was in when the
\* flag was stored false, and has left its loop.
C32_Witness ==
    /\ ~IS_RUNNING
    /\ lateSubmits = 1
    /\ pc_r = "finished"

\* The drain of the iteration at hand has ended: its pop found the queue empty.
DrainDone == Logged("empty_pop")

\* The one size the resources should have: that of the last Resized of
\* positive size, or with none handled yet the size the surface was configured
\* with at startup.
ExpectedSize == IF lastResize # <<0, 0>> THEN lastResize ELSE config

\* C33: once an iteration's drain has ended, the surface configuration and the
\* three textures have the size of the last Resized of positive size handled,
\* or the startup size when there was none.
C33_SizeOfLastResize ==
    DrainDone =>
        /\ config = ExpectedSize
        /\ SizeOf(accum) = ExpectedSize
        /\ SizeOf(reveal) = ExpectedSize
        /\ SizeOf(depth) = ExpectedSize

\* The events the closure returns on without a push.
NeverPushed == {"NewEvents", "AboutToWait", "CloseRequested", "Destroyed"}

\* C34: no NewEvents, AboutToWait, CloseRequested or Destroyed event is ever
\* in the queue; a callback with any other event pushes that event, once, and
\* ends; a callback that finds the render thread finished joins and pushes
\* nothing.
C34_ForwardsAllButFour ==
    /\ [](\A i \in DOMAIN EVENT_QUEUE : EVENT_QUEUE[i].type \notin NeverPushed)
    /\ [](pc_r = "dispatch" => event.type \notin NeverPushed)
    /\ [][nPushed' # nPushed =>
            /\ pc_w = "push"
            /\ curW.type \notin NeverPushed
            /\ nPushed' = nPushed + 1
            /\ EVENT_QUEUE' = Append(EVENT_QUEUE, [curW EXCEPT !.seq = nPushed'])
            /\ curW' = NoEvent
            /\ pc_w' \in {"wait", "poll_all"}]_vars
    /\ [][(pc_w = "match" /\ pc_w' # pc_w) =>
            IF curW.type \in NeverPushed
              THEN pc_w' \in {"wait", "poll_all"} /\ nPushed' = nPushed /\ curW' = NoEvent
              ELSE pc_w' = "push" /\ curW' = curW]_vars
    /\ [](pc_w = "push" => (curW.type \notin NeverPushed /\ ENABLED WPush))
    /\ [][(pc_w = "callback" /\ pc_w' # pc_w) =>
            pc_w' = IF join = "some" /\ RenderFinished THEN "join" ELSE "match"]_vars
    /\ [][(pc_w = "join" /\ pc_w' # pc_w) =>
            /\ nPushed' = nPushed
            /\ EVENT_QUEUE' = EVENT_QUEUE
            /\ curW' = NoEvent
            /\ exitReq' \/ pc_w' = "panicked"]_vars

\* C34 witness: of two events delivered, the first was pushed and is still in
\* the queue and the second, a CloseRequested or Destroyed, stored false and
\* was not pushed.
C34_Witness ==
    /\ pc_w = "wait"
    /\ nEvents = 2
    /\ nPushed = 1
    /\ Len(EVENT_QUEUE) = 1
    /\ ~IS_RUNNING

\* C35: with finitely many events pushed, an iteration that starts its drain
\* leads to its frame being presented, unless acquiring the frame fails.
C35_DrainEndsFramePresented ==
    (pc_r = "pop" /\ frameLog = <<>>) ~> (Logged("present") \/ AcquireFailed)

\* A step of the render thread in its loop, the setup behind it.
LoopStep == pc_r' # pc_r /\ pc_r \in (HandlingPcs \cup {"loop_check", "pop"})

PositiveResized(e) == e.type = "Resized" /\ ResizeAccepted(e)

\* C36: in the loop the camera and its uniform buffer change only where a
\* pressed ArrowLeft or ArrowRight is handled, and the surface configuration,
\* the textures and the bind group only in the handling of a Resized of
\* positive size; every other event is done with at its match.
C36_OtherEventsChangeNothing ==
    /\ [][(LoopStep /\ ~(pc_r = "dispatch" /\ IsTurnKey(event))) =>
            UNCHANGED <<camera, cameraBuf>>]_vars
    /\ [][(LoopStep /\ ~(pc_r \in HandlingPcs /\ PositiveResized(event))) =>
            UNCHANGED resources]_vars
    /\ [][(LoopStep /\ pc_r = "dispatch" /\ ~PositiveResized(event)) =>
            (pc_r' = "pop" /\ rsLog' = <<>>)]_vars

\* C36 witness: with the camera turned by an earlier key press, a key release
\* or a press of another key has been handled.
C36_Witness ==
    /\ pc_r = "pop"
    /\ lastKey.code # "None"
    /\ camera.transform # lastKey.before
    /\ lastHandled.type = "KeyboardInput"
    /\ ~IsTurnKey(lastHandled)

\* A call of GameObject::rotate on a built entity.
RotateStep ==
    /\ entity.phase = "built"
    /\ entity'.phase = "built"
    /\ entity'.last.op = "rotate"
    /\ entity'.last # entity.last \/ entity'.transform # entity.transform

\* The matrix of the rotation of the rotate step.
RotationMatrix ==
    Mat3FromQuat(FromRotationAxis(entity'.last.rotation.axis, entity'.last.rotation.turns))

OnAxis(p, a) == Cross(p, a) = VecZero

\* What a rotate does to the four columns: each is multiplied by the matrix
\* of the rotation, which keeps its length.
RotatesAboutOrigin ==
    /\ entity'.transform.x = MulVec(RotationMatrix, entity.transform.x)
    /\ entity'.transform.y = MulVec(RotationMatrix, entity.transform.y)
    /\ entity'.transform.z = MulVec(RotationMatrix, entity.transform.z)
    /\ entity'.transform.w = MulVec(RotationMatrix, entity.transform.w)
    /\ Dot(entity'.transform.x, entity'.transform.x) = Dot(entity.transform.x, entity.transform.x)
    /\ Dot(entity'.transform.y, entity'.transform.y) = Dot(entity.transform.y, entity.transform.y)
    /\ Dot(entity'.transform.z, entity'.transform.z) = Dot(entity.transform.z, entity.transform.z)
    /\ Dot(entity'.transform.w, entity'.transform.w) = Dot(entity.transform.w, entity.transform.w)

\* C37 as stated: a rotate multiplies all four columns of the transform by the
\* rotation, keeps their lengths, and leaves the position where it is only
\* when the position lies on the axis of the rotation.
C37_PositionKeptOnlyOnAxis ==
    [][RotateStep =>
        /\ RotatesAboutOrigin
        /\ entity'.transform.w = entity.transform.w =>
              OnAxis(entity.transform.w, entity'.last.rotation.axis)]_vars

\* C37: a rotate multiplies all four columns of the transform by the
\* rotation and keeps their lengths; a rotation that is not by a whole number
\* of turns leaves the position where it is exactly when the position lies on
\* its axis, and a rotation by a whole number of turns leaves every position.
C37_RotatesWholeTransform ==
    [][RotateStep =>
        /\ RotatesAboutOrigin
        /\ entity'.last.rotation.turns % 4 # 0 =>
              (entity'.transform.w = entity.transform.w <=>
                 OnAxis(entity.transform.w, entity'.last.rotation.axis))
        /\ entity'.last.rotation.turns % 4 = 0 =>
              entity'.transform = entity.transform]_vars

\* C37 witness: an entity standing off the axis of its last rotate, a quarter
\* turn, and not at the origin: the rotate has moved it.
C37_Witness ==
    /\ entity.phase = "built"
    /\ entity.last.op = "rotate"
    /\ entity.last.rotation.turns = 1
    /\ entity.transform.w # VecZero
    /\ ~OnAxis(entity.transform.w, entity.last.rotation.axis)

====
